---- MODULE Spec2Model ----
(***************************************************************************)
(* Vorticity-streamfunction solver for the flow around a submerged beam    *)
(* (OpenMP/beam-parallel-for-NBS.cpp): the field arrays u and w, the       *)
(* boundary-condition functions, the two relaxation sweeps, the            *)
(* convergence loop of relax_until_converge, run_simulation and the        *)
(* Reynolds sweep of main.                                                 *)
(*                                                                         *)
(* Numbers.  A C++ double is modelled as a fixed-point number: the integer *)
(* x stands for the value x / Scale.  The quiet not-a-number is the        *)
(* distinguished value NaN, which every arithmetic operation propagates    *)
(* and every ordered comparison answers false on, as IEEE-754 does.        *)
(* Constant factors of the source (0.25, 0.7, omega, ...) are applied as   *)
(* exact rationals with one rounding to nearest.                           *)
(*                                                                         *)
(* Geometry.  The grid and the beam are scaled down (Nxmax, Nymax, IL, H,  *)
(* T below; 160, 30, 10, 8, 8 in the source) keeping the shape the source  *)
(* has: the beam stands on the centerline, with at least two fluid columns *)
(* before and behind it and two fluid rows above it.  The iteration        *)
(* thresholds of the convergence loop (50000, 3000, 8000, 350000) are      *)
(* scaled down likewise, keeping their order.                              *)
(***************************************************************************)
EXTENDS Integers, Sequences, FiniteSets, TLC

\* ---------------------------------------------------------------- bounds
\* Grid and beam (source: Nxmax = 160, Nymax = 30, IL = 10, H = 8, T = 8).
Nxmax == 8
Nymax == 5
IL == 3
H == 1
T == 1
\* Resolution of the fixed-point numbers: one unit is 1 / Scale.
Scale == 100
\* Iteration thresholds of relax_until_converge, scaled down
\* (source: iter > 50000; patience 3000 / 8000; max_iterations = 350000).
PartialMinIter == 2
PatienceLow == 1
PatienceHigh == 2
MaxIterations == 6
\* max_iterations passed by the runs that compute the fields cell by cell.
MaxIterationsField == 2

\* ------------------------------------------------------------- numbers
NaN == 2147483647

IsNaN(x) == x = NaN

AbsInt(a) == IF a < 0 THEN -a ELSE a

\* a / d rounded to the nearest integer, d > 0
RoundDiv(a, d) ==
    LET q == AbsInt(a) \div d
        r == AbsInt(a) % d
        m == IF 2 * r >= d THEN q + 1 ELSE q
    IN  IF a >= 0 THEN m ELSE -m

SignOf(a, b) == IF (a < 0) = (b < 0) THEN 1 ELSE -1

Add(a, b) == IF IsNaN(a) \/ IsNaN(b) THEN NaN ELSE a + b

Sub(a, b) == IF IsNaN(a) \/ IsNaN(b) THEN NaN ELSE a - b

\* x * (n / d) for a constant factor n / d of the source, d > 0.
Times(x, n, d) ==
    IF IsNaN(x) THEN NaN
    ELSE LET m == (AbsInt(x) \div d) * AbsInt(n) + RoundDiv((AbsInt(x) % d) * AbsInt(n), d)
         IN  SignOf(x, n) * m

\* a * b of two fixed-point numbers.
Mul(a, b) ==
    IF IsNaN(a) \/ IsNaN(b) THEN NaN
    ELSE LET x == IF AbsInt(a) >= AbsInt(b) THEN AbsInt(a) ELSE AbsInt(b)
             y == IF AbsInt(a) >= AbsInt(b) THEN AbsInt(b) ELSE AbsInt(a)
         IN  SignOf(a, b) * ((x \div Scale) * y + RoundDiv((x % Scale) * y, Scale))

\* a / b of two fixed-point numbers; x / 0 is NaN for x = 0 and is not
\* needed otherwise (every divisor of the source is V0 * h, h * h or nu).
Div(a, b) ==
    IF IsNaN(a) \/ IsNaN(b) \/ b = 0 THEN NaN
    ELSE LET q == AbsInt(a) \div AbsInt(b)
             r == AbsInt(a) % AbsInt(b)
         IN  SignOf(a, b) * (q * Scale + RoundDiv(r * Scale, AbsInt(b)))

\* std::abs
Abs(x) == IF IsNaN(x) THEN NaN ELSE AbsInt(x)

\* operator< and operator> of double: false when an operand is NaN
Less(a, b) == ~IsNaN(a) /\ ~IsNaN(b) /\ a < b

Greater(a, b) == ~IsNaN(a) /\ ~IsNaN(b) /\ a > b

\* std::max(a, b) is (a < b) ? b : a
StdMax(a, b) == IF Less(a, b) THEN b ELSE a

\* ------------------------------------------------ program constants
h == Scale
V0 == Scale
\* tol = 1e-8, kept as its reciprocal; a tolerance is a multiple k of tol.
tol_inv == 100000000

\* x < k * tol, for k * tol < 1.0 (the largest in the source is 0.04)
LessTol(x, k) ==
    /\ ~IsNaN(x)
    /\ x < Scale
    /\ x * (tol_inv \div Scale) < k

\* Reynolds numbers are kept in tenths: 5 is Re = 0.5, 50 is Re = 5.0.
reynolds_values == <<5, 10, 20, 50>>

\* the double value of a Reynolds number given in tenths
ReValue(re) == RoundDiv(re * Scale, 10)

\* ------------------------------------------------------------ the grid
Nodes == (0 .. Nxmax) \X (0 .. Nymax)

is_inside_beam(i, j) == i >= IL /\ i <= IL + T /\ j >= 0 /\ j <= H

\* the interior nodes the sweeps and the change norms visit
Interior == {n \in Nodes : n[1] >= 1 /\ n[1] < Nxmax /\ n[2] >= 1 /\ n[2] < Nymax}

ZeroField == [n \in Nodes |-> 0]

\* TLC evaluates an operator argument only when it is read: Evaluated(f)
\* reads the field f, so that a sweep updates it node after node instead of
\* building one nested expression for the whole grid.
Evaluated(f) == DOMAIN f = Nodes

\* reset_fields
reset_fields_F == [u |-> ZeroField, w |-> ZeroField]

\* ------------------------------------------------------------ borders
\* lines 93-104: uniform-shear profile outside the beam, zero vorticity
borders_fill ==
    [u |-> [n \in Nodes |-> IF is_inside_beam(n[1], n[2]) THEN 0 ELSE n[2] * V0],
     w |-> ZeroField]

\* lines 106-112: free surface
borders_surface(F) ==
    [u |-> [n \in Nodes |->
               IF n[2] = Nymax /\ ~is_inside_beam(n[1], Nymax)
               THEN Add(F.u[n[1], Nymax - 1], Mul(V0, h)) ELSE F.u[n]],
     w |-> [n \in Nodes |->
               IF n[2] = Nymax - 1 /\ ~is_inside_beam(n[1], Nymax) /\ Nymax > 1
               THEN 0 ELSE F.w[n]]]

\* lines 114-120: inlet
borders_inlet(F) ==
    [u |-> [n \in Nodes |->
               IF n[1] = 1 /\ ~is_inside_beam(0, n[2]) /\ ~is_inside_beam(1, n[2])
               THEN F.u[0, n[2]] ELSE F.u[n]],
     w |-> [n \in Nodes |->
               IF n[1] = 0 /\ ~is_inside_beam(0, n[2]) /\ ~is_inside_beam(1, n[2])
               THEN 0 ELSE F.w[n]]]

\* lines 122-128: centerline
borders_centerline(F) ==
    [u |-> [n \in Nodes |->
               IF n[2] = 0 /\ ~is_inside_beam(n[1], 0) THEN 0 ELSE F.u[n]],
     w |-> [n \in Nodes |->
               IF n[2] = 0 /\ ~is_inside_beam(n[1], 0) THEN 0 ELSE F.w[n]]]

\* lines 130-136: outlet
borders_outlet(F) ==
    LET copied(n) == /\ n[1] = Nxmax /\ n[2] >= 1 /\ n[2] < Nymax
                     /\ ~is_inside_beam(Nxmax, n[2])
                     /\ ~is_inside_beam(Nxmax - 1, n[2])
    IN  [u |-> [n \in Nodes |-> IF copied(n) THEN F.u[Nxmax - 1, n[2]] ELSE F.u[n]],
         w |-> [n \in Nodes |-> IF copied(n) THEN F.w[Nxmax - 1, n[2]] ELSE F.w[n]]]

borders ==
    borders_outlet(borders_centerline(borders_inlet(borders_surface(borders_fill))))

\* ----------------------------------------------------- beam_boundaries
\* R_target >= 5.0, on a Reynolds number in tenths
HighReynolds(rt) == rt >= 50

\* -2.0 * x / (h * h)
WallVorticity(x) == Div(Times(x, -2, 1), Mul(h, h))

CornerBlendFavourLarger(wv, wh, rt) ==
    IF HighReynolds(rt)
    THEN IF Less(Abs(wv), Abs(wh))
         THEN Add(Times(wv, 3, 10), Times(wh, 7, 10))
         ELSE Add(Times(wv, 7, 10), Times(wh, 3, 10))
    ELSE Times(Add(wv, wh), 1, 2)

\* lines 179-189 and 197-206: the corner value from the two face estimates
CornerBlend(wv, wh, rt) ==
    IF HighReynolds(rt)
    THEN IF Less(Abs(wv), Abs(wh))
         THEN Add(Times(wv, 7, 10), Times(wh, 3, 10))
         ELSE Add(Times(wv, 3, 10), Times(wh, 7, 10))
    ELSE Times(Add(wv, wh), 1, 2)

\* lines 141-147: u = w = 0 on the whole beam
beam_zero(F) ==
    [u |-> [n \in Nodes |->
               IF n[1] >= IL /\ n[1] <= IL + T /\ n[2] >= 0 /\ n[2] <= H
               THEN 0 ELSE F.u[n]],
     w |-> [n \in Nodes |->
               IF n[1] >= IL /\ n[1] <= IL + T /\ n[2] >= 0 /\ n[2] <= H
               THEN 0 ELSE F.w[n]]]

\* lines 149-207: wall vorticity on the front, back and top faces and at
\* the two top corners; every value is read from u, which these steps
\* leave alone, and no node is written twice.
beam_faces(F, rt) ==
    LET uu == F.u
        front(n) == IL > 0 /\ n[1] = IL - 1 /\ n[2] >= 1 /\ n[2] <= H /\ n[2] < Nymax
        back(n) == /\ IL + T + 1 <= Nxmax /\ n[1] = IL + T + 1
                   /\ n[2] >= 1 /\ n[2] <= H /\ n[2] < Nymax
        top(n) == H + 1 <= Nymax /\ n[2] = H + 1 /\ n[1] >= IL /\ n[1] <= IL + T
        left(n) == IL > 0 /\ H + 1 <= Nymax /\ n = <<IL - 1, H + 1>>
        right(n) == IL + T + 1 <= Nxmax /\ H + 1 <= Nymax /\ n = <<IL + T + 1, H + 1>>
    IN  [u |-> uu,
         w |-> [n \in Nodes |->
                  IF front(n) THEN WallVorticity(uu[IL - 2, n[2]])
                  ELSE IF back(n) THEN WallVorticity(uu[IL + T + 2, n[2]])
                  ELSE IF top(n) THEN WallVorticity(uu[n[1], H + 2])
                  ELSE IF left(n)
                       THEN CornerBlend(WallVorticity(uu[IL - 2, H + 1]),
                                        WallVorticity(uu[IL - 1, H + 2]), rt)
                  ELSE IF right(n)
                       THEN CornerBlend(WallVorticity(uu[IL + T + 2, H + 1]),
                                        WallVorticity(uu[IL + T + 1, H + 2]), rt)
                  ELSE F.w[n]]]

\* the 3 x 3 offsets in the order of the nested loops (di outer, dj inner)
Offsets ==
    << <<-1, -1>>, <<-1, 0>>, <<-1, 1>>,
       <<0, -1>>,  <<0, 0>>,  <<0, 1>>,
       <<1, -1>>,  <<1, 0>>,  <<1, 1>> >>

RECURSIVE NeighbourSum(_, _, _, _)
\* lines 222-234: smooth_w and count over the neighbours of (ii, jj)
NeighbourSum(ww, ii, jj, k) ==
    IF k > Len(Offsets) THEN [sum |-> 0, count |-> 0]
    ELSE LET iii == ii + Offsets[k][1]
             jjj == jj + Offsets[k][2]
             rest == NeighbourSum(ww, ii, jj, k + 1)
         IN  IF /\ iii >= 0 /\ iii <= Nxmax /\ jjj >= 0 /\ jjj <= Nymax
                /\ ~is_inside_beam(iii, jjj)
                /\ ~(Offsets[k][1] = 0 /\ Offsets[k][2] = 0)
             THEN [sum |-> Add(ww[iii, jjj], rest.sum), count |-> rest.count + 1]
             ELSE rest

\* lines 216-240: one node of the smoothing pass
smooth_node(ww, ii, jj) ==
    IF /\ ii > 0 /\ ii < Nxmax /\ jj > 0 /\ jj < Nymax
       /\ ~is_inside_beam(ii, jj)
       /\ Greater(Abs(ww[ii, jj]), 2 * Scale)
    THEN LET s == NeighbourSum(ww, ii, jj, 1)
         IN  IF s.count > 0
             THEN [ww EXCEPT ![ii, jj] =
                      Add(Times(ww[ii, jj], 6, 10),
                          Times(Times(s.sum, 1, s.count), 4, 10))]
             ELSE ww
    ELSE ww

RECURSIVE smooth_pass(_, _)
\* lines 214-242: the nodes around the upper-left corner, in place
smooth_pass(ww, k) ==
    IF k > Len(Offsets) \/ ~Evaluated(ww) THEN ww
    ELSE smooth_pass(smooth_node(ww, IL - 1 + Offsets[k][1], H + 1 + Offsets[k][2]),
                     k + 1)

\* lines 209-244
beam_smooth(F, rt) ==
    IF HighReynolds(rt) /\ IL > 1 /\ H + 2 <= Nymax
    THEN [u |-> F.u, w |-> smooth_pass(F.w, 1)]
    ELSE F

\* beam_boundaries without the wall-vorticity step
beam_boundaries_no_faces(F, rt) == beam_smooth(beam_zero(F), rt)

beam_boundaries(F, rt) == beam_smooth(beam_faces(beam_zero(F), rt), rt)

\* ------------------------------------------------------- configuration
\* lines 66-78: omega in thousandths (0.1, 0.08, 0.04, 0.012, 0.008, 0.005)
OmegaDen == 1000

OmegaTable(rt) ==
    IF rt <= 5 THEN 100
    ELSE IF rt <= 10 THEN 80
    ELSE IF rt <= 20 THEN 40
    ELSE IF rt <= 50 THEN 12
    ELSE IF rt <= 100 THEN 8
    ELSE 5

\* line 63: nu = V0 * h / R_target
Viscosity(rt) == Div(Mul(V0, h), ReValue(rt))

MeshReynoldsStale(visc) == Div(Mul(V0, h), Div(Mul(V0, h), ReValue(reynolds_values[1])))

\* line 305: R = V0 * h / nu
MeshReynolds(visc) == Div(Mul(V0, h), visc)

\* lines 313-323: effective_tol as a multiple of tol
EffectiveTol(rt) ==
    IF rt >= 50 THEN 200
    ELSE IF rt > 20 THEN 50
    ELSE IF rt > 15 THEN 10
    ELSE 1

\* line 379: divergence_threshold
DivergenceThresholdFlat(rt) == 1000 * Scale

DivergenceThreshold(rt) == IF rt >= 50 THEN 50 * Scale ELSE 1000 * Scale

\* line 405: patience
Patience(rt) == IF rt >= 50 THEN PatienceHigh ELSE PatienceLow

\* line 419: acceptance_threshold as a multiple of tol
AcceptanceThresholdTol(rt) == EffectiveTol(rt)

AcceptanceThreshold(rt) ==
    IF rt >= 50 THEN EffectiveTol(rt) * 20000 ELSE EffectiveTol(rt) * 1000

StabilityFactorOff(rt) == 10

\* lines 283-290: stability_factor in tenths
StabilityFactor(rt) ==
    IF rt >= 50 THEN 4
    ELSE IF rt > 20 THEN 7
    ELSE IF rt > 15 THEN 8
    ELSE 10

\* ---------------------------------------------------- relaxation sweeps
\* "#pragma omp parallel for" over the columns i = 1 .. Nxmax-1: the
\* columns are dealt to two threads in two contiguous chunks.  A schedule
\* names the chunk that runs first; chunk 0 first is also the order of a
\* single thread.
Schedules == {0, 1}

MidColumn == Nxmax \div 2

ColumnOrder(sched) ==
    IF sched = 0
    THEN [k \in 1 .. (Nxmax - 1) |-> k]
    ELSE [k \in 1 .. (Nxmax - 1) |->
             IF k <= Nxmax - 1 - MidColumn THEN MidColumn + k
             ELSE k - (Nxmax - 1 - MidColumn)]

\* lines 252-257: one node of relax_stream_function
relax_u_node_unguarded(uu, ww, om, i, j) ==
    LET old_u == uu[i, j]
        new_u == Times(Add(Add(Add(Add(uu[i + 1, j], uu[i - 1, j]), uu[i, j + 1]),
                               uu[i, j - 1]),
                           Mul(Mul(h, h), ww[i, j])), 1, 4)
        r1 == Times(Sub(new_u, old_u), om, OmegaDen)
    IN  [uu EXCEPT ![i, j] = Add(old_u, r1)]

relax_u_node(uu, ww, om, i, j) ==
    IF is_inside_beam(i, j) THEN uu
    ELSE LET old_u == uu[i, j]
             new_u == Times(Add(Add(Add(Add(uu[i + 1, j], uu[i - 1, j]), uu[i, j + 1]),
                                    uu[i, j - 1]),
                                Mul(Mul(h, h), ww[i, j])), 1, 4)
             r1 == Times(Sub(new_u, old_u), om, OmegaDen)
         IN  [uu EXCEPT ![i, j] = Add(old_u, r1)]

RECURSIVE relax_u_column(_, _, _, _, _)
\* lines 251-258: the inner loop, j = 1 .. Nymax-1 of column i
relax_u_column(uu, ww, om, i, j) ==
    IF j > Nymax - 1 \/ ~Evaluated(uu) THEN uu
    ELSE relax_u_column(relax_u_node(uu, ww, om, i, j), ww, om, i, j + 1)

RECURSIVE relax_u_from(_, _, _, _, _)
\* lines 250-259: the columns in the order of the schedule
relax_u_from(uu, ww, om, cols, k) ==
    IF k > Len(cols) THEN uu
    ELSE relax_u_from(relax_u_column(uu, ww, om, cols[k], 1), ww, om, cols, k + 1)

\* lines 248-260
relax_stream_function(F, om, sched) ==
    [u |-> relax_u_from(F.u, F.w, om, ColumnOrder(sched), 1), w |-> F.w]

relax_w_node_unguarded(uu, ww, om, rt, Rm, i, j) ==
    IF FALSE THEN ww
    ELSE LET old_w == ww[i, j]
             a1 == Add(Add(Add(ww[i + 1, j], ww[i - 1, j]), ww[i, j + 1]), ww[i, j - 1])
         IN  IF i = 1 \/ i = Nxmax - 1 \/ j = 1 \/ j = Nymax - 1
             THEN LET new_w == Times(a1, 1, 4)
                      r2 == Times(Sub(new_w, old_w), om, OmegaDen)
                  IN  [ww EXCEPT ![i, j] = Add(old_w, r2)]
             ELSE LET a2 == Mul(Sub(uu[i, j + 1], uu[i, j - 1]),
                                Sub(ww[i + 1, j], ww[i - 1, j]))
                      a3 == Mul(Sub(uu[i + 1, j], uu[i - 1, j]),
                                Sub(ww[i, j + 1], ww[i, j - 1]))
                      conv == Mul(Times(Times(Rm, 1, 4), StabilityFactor(rt), 10),
                                  Sub(a2, a3))
                      new_w == Times(Sub(a1, conv), 1, 4)
                      r2 == Times(Sub(new_w, old_w), om, OmegaDen)
                  IN  [ww EXCEPT ![i, j] = Add(old_w, r2)]

\* lines 267-295: one node of relax_vorticity
relax_w_node(uu, ww, om, rt, Rm, i, j) ==
    IF is_inside_beam(i, j) THEN ww
    ELSE LET old_w == ww[i, j]
             a1 == Add(Add(Add(ww[i + 1, j], ww[i - 1, j]), ww[i, j + 1]), ww[i, j - 1])
         IN  IF i = 1 \/ i = Nxmax - 1 \/ j = 1 \/ j = Nymax - 1
             THEN LET new_w == Times(a1, 1, 4)
                      r2 == Times(Sub(new_w, old_w), om, OmegaDen)
                  IN  [ww EXCEPT ![i, j] = Add(old_w, r2)]
             ELSE LET a2 == Mul(Sub(uu[i, j + 1], uu[i, j - 1]),
                                Sub(ww[i + 1, j], ww[i - 1, j]))
                      a3 == Mul(Sub(uu[i + 1, j], uu[i - 1, j]),
                                Sub(ww[i, j + 1], ww[i, j - 1]))
                      conv == Mul(Times(Times(Rm, 1, 4), StabilityFactor(rt), 10),
                                  Sub(a2, a3))
                      new_w == Times(Sub(a1, conv), 1, 4)
                      r2 == Times(Sub(new_w, old_w), om, OmegaDen)
                  IN  [ww EXCEPT ![i, j] = Add(old_w, r2)]

RECURSIVE relax_w_column(_, _, _, _, _, _, _)
\* lines 266-296: the inner loop, j = 1 .. Nymax-1 of column i
relax_w_column(uu, ww, om, rt, Rm, i, j) ==
    IF j > Nymax - 1 \/ ~Evaluated(ww) THEN ww
    ELSE relax_w_column(uu, relax_w_node(uu, ww, om, rt, Rm, i, j), om, rt, Rm, i, j + 1)

RECURSIVE relax_w_from(_, _, _, _, _, _, _)
\* lines 265-297: the columns in the order of the schedule
relax_w_from(uu, ww, om, rt, Rm, cols, k) ==
    IF k > Len(cols) THEN ww
    ELSE relax_w_from(uu, relax_w_column(uu, ww, om, rt, Rm, cols[k], 1),
                      om, rt, Rm, cols, k + 1)

\* lines 263-298
relax_vorticity(F, om, rt, Rm, sched) ==
    [u |-> F.u, w |-> relax_w_from(F.u, F.w, om, rt, Rm, ColumnOrder(sched), 1)]

RECURSIVE max_diff_column(_, _, _, _, _)
\* lines 360-365: the inner loop of the change norm; acc is the norm so
\* far, which is never NaN (reading it here makes TLC evaluate it node
\* after node)
max_diff_column(f, f_old, i, j, acc) ==
    IF j > Nymax - 1 \/ IsNaN(acc) THEN acc
    ELSE max_diff_column(f, f_old, i, j + 1,
            IF is_inside_beam(i, j) THEN acc
            ELSE StdMax(acc, Abs(Sub(f[i, j], f_old[i, j]))))

RECURSIVE max_diff_from(_, _, _, _)
\* lines 359-366
max_diff_from(f, f_old, i, acc) ==
    IF i > Nxmax - 1 \/ IsNaN(acc) THEN acc
    ELSE max_diff_from(f, f_old, i + 1, max_diff_column(f, f_old, i, 1, acc))

\* lines 326-327 and 358-366: the change norm of one field, from 0.0
max_diff(f, f_old) == max_diff_from(f, f_old, 1, 0)

\* lines 435-439: normalize
normalize_F(F) == [u |-> [n \in Nodes |-> Div(F.u[n], Mul(V0, h))], w |-> F.w]

\* lines 13-17: the geometry the program is built with
BuildGeometry == [Nxmax |-> Nxmax, Nymax |-> Nymax, IL |-> IL, H |-> H, T |-> T]

\* ------------------------------------------------------------- state
VARIABLES
    u, w,                 \* the global field arrays
    u_old, w_old,         \* the snapshot of relax_until_converge
    R_target, nu, omega,  \* set by configure_reynolds
    R,                    \* mesh Reynolds number
    max_iterations,       \* argument of relax_until_converge
    iter, max_diff_u, max_diff_w,
    last_w_error, stagnant_count,   \* the function-local statics
    pc,                   \* the statement the program is at
    exit_via,             \* how the do-while loop was left
    status,               \* the terminal state relax_until_converge reports
    converged,            \* its return value
    calls,                \* normalize / export calls of the current run
    run_returned,         \* return values of run_simulation, one per run
    k,                    \* index of the current run in reynolds_values
    successful_simulations,
    seed,                 \* the perturbation applied before the loop, if any
    w_from_vertical, w_from_horizontal,   \* the two face estimates of the corner
                          \* step of beam_boundaries, when they are given
    thread_at, thread_phase, thread_local,  \* the threads of a parallel loop
                          \* followed one by one: the node or column each is
                          \* at, whether it is about to read or to write,
                          \* and the value it has computed
    private_max,          \* the accumulators of a max reduction
    geometry,             \* Nxmax, Nymax, IL, H, T of the build
    prev_w_change, streak \* observers of the current run: the w change of the
                          \* preceding iteration, and for how many consecutive
                          \* iterations the u change was below tolerance and
                          \* the w change equal to the preceding one

vars ==
    <<u, w, u_old, w_old, R_target, nu, omega, R, max_iterations, iter,
      max_diff_u, max_diff_w, last_w_error, stagnant_count, pc, exit_via,
      status, converged, calls, run_returned, k, successful_simulations, seed,
      w_from_vertical, w_from_horizontal, thread_at, thread_phase, thread_local,
      private_max, geometry, prev_w_change, streak>>

fields == <<u, w>>
snapshot == <<u_old, w_old>>
config == <<R_target, nu, omega, R, max_iterations>>
statics == <<last_w_error, stagnant_count>>
loop_state == <<iter, max_diff_u, max_diff_w, exit_via, status, converged>>
harness == <<calls, run_returned, k, successful_simulations>>
harness_rest == <<calls, run_returned, successful_simulations>>
observers == <<prev_w_change, streak>>
estimates == <<w_from_vertical, w_from_horizontal>>
workers == <<thread_at, thread_phase, thread_local, private_max>>

NoSeed == [field |-> "none", node |-> <<0, 0>>, value |-> 0]

InitWith(maxit) ==
    /\ u = ZeroField /\ w = ZeroField
    /\ u_old = ZeroField /\ w_old = ZeroField
    /\ R_target = 0 /\ nu = 0 /\ omega = 0 /\ R = 0
    /\ max_iterations = maxit
    /\ iter = 0 /\ max_diff_u = 0 /\ max_diff_w = 0
    /\ last_w_error = -Scale /\ stagnant_count = 0
    /\ pc = "reset_fields"
    /\ exit_via = "none" /\ status = "NONE" /\ converged = FALSE
    /\ calls = {} /\ run_returned = <<>>
    /\ k = 1 /\ successful_simulations = 0
    /\ seed = NoSeed
    /\ w_from_vertical = 0 /\ w_from_horizontal = 0
    /\ thread_at = <<>> /\ thread_phase = <<>> /\ thread_local = <<>>
    /\ private_max = <<>>
    /\ geometry = BuildGeometry
    /\ prev_w_change = -Scale /\ streak = 0

Init == InitWith(MaxIterationsField)

\* ------------------------------------------------------ run_simulation
\* line 554
ResetFields ==
    /\ pc = "reset_fields"
    /\ u' = reset_fields_F.u /\ w' = reset_fields_F.w
    /\ calls' = {} /\ seed' = NoSeed
    /\ pc' = "configure_reynolds"
    /\ UNCHANGED <<workers, geometry, estimates,
                   observers, snapshot, config, statics, loop_state, run_returned, k,
                   successful_simulations>>

\* lines 59-83
ConfigureReynolds ==
    /\ pc = "configure_reynolds"
    /\ R_target' = reynolds_values[k]
    /\ nu' = Viscosity(reynolds_values[k])
    /\ omega' = OmegaTable(reynolds_values[k])
    /\ pc' = "borders"
    /\ UNCHANGED <<workers, geometry, estimates,
                   observers, fields, snapshot, R, max_iterations, statics, loop_state,
                   harness, seed>>

\* lines 91-137
Borders ==
    /\ pc = "borders"
    /\ u' = borders.u /\ w' = borders.w
    /\ pc' = "relax_until_converge"
    /\ UNCHANGED <<workers, geometry, estimates,
                   observers, snapshot, config, statics, loop_state, harness, seed>>

\* lines 301-323: entry of relax_until_converge
EnterLoop ==
    /\ pc = "relax_until_converge"
    /\ iter' = 0
    /\ R' = MeshReynolds(nu)
    /\ status' = "RUNNING" /\ exit_via' = "none"
    /\ prev_w_change' = -Scale /\ streak' = 0
    /\ pc' = "beam_top"
    /\ UNCHANGED <<workers, geometry, estimates,
                   fields, snapshot, R_target, nu, omega, max_iterations, statics,
                   max_diff_u, max_diff_w, converged, harness, seed>>

\* lines 326-330 (top of an iteration) and line 355 (after the sweeps)
BeamBoundaries ==
    /\ pc \in {"beam_top", "beam_bottom"}
    /\ LET F == beam_boundaries([u |-> u, w |-> w], R_target)
       IN  u' = F.u /\ w' = F.w
    /\ max_diff_u' = IF pc = "beam_top" THEN 0 ELSE max_diff_u
    /\ max_diff_w' = IF pc = "beam_top" THEN 0 ELSE max_diff_w
    /\ pc' = IF pc = "beam_top" THEN "snapshot" ELSE "norms"
    /\ UNCHANGED <<workers, geometry, estimates, observers,
                   snapshot, config, statics, iter, exit_via, status,
                   converged,
                   harness, seed>>

\* lines 333-346
Snapshot ==
    /\ pc = "snapshot"
    /\ u_old' = u /\ w_old' = w
    /\ pc' = "relax_stream_function"
    /\ UNCHANGED <<workers, geometry, estimates,
                   observers, fields, config, statics, loop_state, harness, seed>>

\* line 349
RelaxStreamFunction ==
    /\ pc = "relax_stream_function"
    /\ \E sched \in Schedules :
          LET F == relax_stream_function([u |-> u, w |-> w], omega, sched)
          IN  u' = F.u /\ w' = F.w
    /\ pc' = "relax_vorticity"
    /\ UNCHANGED <<workers, geometry, estimates,
                   observers, snapshot, config, statics, loop_state, harness, seed>>

\* line 352
RelaxVorticity ==
    /\ pc = "relax_vorticity"
    /\ \E sched \in Schedules :
          LET F == relax_vorticity([u |-> u, w |-> w], omega, R_target, R, sched)
          IN  u' = F.u /\ w' = F.w
    /\ pc' = "beam_bottom"
    /\ UNCHANGED <<workers, geometry, estimates,
                   observers, snapshot, config, statics, loop_state, harness, seed>>

\* line 368
NextIterStuck(it) == it

NextIter(it) == it + 1

\* line 413: the do-while condition
LoopContinues(it, maxit) == it < maxit

\* line 397: std::abs(max_diff_w - last_w_error) < 1e-15; one unit of the
\* fixed-point numbers is far above 1e-15, so only equal values are that near
NearlyEqual(a, b) == ~IsNaN(a) /\ ~IsNaN(b) /\ a = b

\* lines 368-413: the termination rules, on the change norms du and dw of
\* the iteration
TerminationRules(du, dw) ==
    LET it == NextIter(iter)
        thr == DivergenceThreshold(R_target)
        eff == EffectiveTol(R_target)
        diverged == \/ IsNaN(du) \/ IsNaN(dw)
                    \/ Greater(du, thr) \/ Greater(dw, thr)
        conv == LessTol(du, eff) /\ LessTol(dw, eff)
        inPartial == LessTol(du, eff) /\ it > PartialMinIter
        sc == IF NearlyEqual(dw, last_w_error) THEN stagnant_count + 1 ELSE 0
        partial == inPartial /\ sc > Patience(R_target)
    IN  /\ iter' = it
        /\ max_diff_u' = du
        /\ max_diff_w' = dw
        /\ prev_w_change' = dw
        /\ streak' = IF LessTol(du, eff) /\ NearlyEqual(dw, prev_w_change)
                     THEN streak + 1 ELSE 0
        /\ IF diverged
           THEN /\ pc' = "returned" /\ exit_via' = "diverged"
                /\ status' = "DIVERGED" /\ converged' = FALSE
                /\ UNCHANGED statics
           ELSE IF conv
           THEN /\ pc' = "after_loop" /\ exit_via' = "converged"
                /\ UNCHANGED <<workers, geometry, estimates, status, converged, statics>>
           ELSE /\ stagnant_count' = IF inPartial THEN sc ELSE stagnant_count
                /\ last_w_error' = IF inPartial THEN dw ELSE last_w_error
                /\ UNCHANGED <<workers, geometry, estimates, status, converged>>
                /\ IF partial
                   THEN pc' = "after_loop" /\ exit_via' = "partial"
                   ELSE IF LoopContinues(it, max_iterations)
                   THEN pc' = "beam_top" /\ exit_via' = "none"
                   ELSE pc' = "after_loop" /\ exit_via' = "cap"

\* lines 357-413, on the fields
Terminate ==
    /\ pc = "norms"
    /\ TerminationRules(max_diff(u, u_old), max_diff(w, w_old))
    /\ UNCHANGED <<workers, geometry, estimates, fields, snapshot, config, harness, seed>>

\* lines 415-429
AfterLoop ==
    /\ pc = "after_loop"
    /\ IF iter >= max_iterations
       THEN /\ status' = "MAX_ITERATIONS_EXCEEDED"
            /\ converged' = LessTol(max_diff_u, AcceptanceThreshold(R_target))
       ELSE /\ status' = IF exit_via = "partial" THEN "PARTIALLY_CONVERGED"
                         ELSE "CONVERGED"
            /\ converged' = TRUE
    /\ pc' = "returned"
    /\ UNCHANGED <<workers, geometry, estimates,
                   observers, fields, snapshot, config, statics, iter, max_diff_u,
                   max_diff_w,
                   exit_via, harness, seed>>

\* line 560: normalize and the exports follow only a true return value
ProceedsAlways(ok) == TRUE

Proceeds(ok) == ok

\* lines 558-563
RunCheck ==
    /\ pc = "returned"
    /\ IF Proceeds(converged)
       THEN pc' = "normalize" /\ UNCHANGED run_returned
       ELSE pc' = "main_next" /\ run_returned' = Append(run_returned, FALSE)
    /\ UNCHANGED <<workers, geometry, estimates,
                   observers, fields, snapshot, config, statics, loop_state, calls, k,
                   successful_simulations, seed>>

\* line 565
Normalize ==
    /\ pc = "normalize"
    /\ u' = normalize_F([u |-> u, w |-> w]).u
    /\ calls' = calls \cup {"normalize"}
    /\ pc' = "export_streamfunction"
    /\ UNCHANGED <<workers, geometry, estimates,
                   observers, w, snapshot, config, statics, loop_state, run_returned, k,
                   successful_simulations, seed>>

\* lines 567-572: the three exports read the fields; run_simulation then
\* returns true
Export ==
    /\ pc \in {"export_streamfunction", "export_vorticity", "export_velocity_field"}
    /\ calls' = calls \cup {pc}
    /\ pc' = IF pc = "export_streamfunction" THEN "export_vorticity"
             ELSE IF pc = "export_vorticity" THEN "export_velocity_field"
             ELSE "main_next"
    /\ run_returned' = IF pc = "export_velocity_field"
                       THEN Append(run_returned, TRUE) ELSE run_returned
    /\ UNCHANGED <<workers, geometry, estimates, observers,
                   fields, snapshot, config, statics, loop_state, k,
                   successful_simulations, seed>>

MainNextStopOnFailure ==
    /\ pc = "main_next"
    /\ successful_simulations' =
          IF run_returned[k] THEN successful_simulations + 1
          ELSE successful_simulations
    /\ k' = k + 1
    /\ pc' = IF k < Len(reynolds_values) /\ run_returned[k] THEN "reset_fields" ELSE "done"
    /\ iter' = 0 /\ max_diff_u' = 0 /\ max_diff_w' = 0
    /\ exit_via' = "none" /\ status' = "NONE" /\ converged' = FALSE
    /\ u_old' = ZeroField /\ w_old' = ZeroField
    /\ prev_w_change' = -Scale /\ streak' = 0
    /\ calls' = {}
    /\ UNCHANGED <<workers, geometry, estimates, fields, config, statics, run_returned, seed>>

\* lines 593-599: the sweep of main.  run_simulation has returned: its
\* locals and those of relax_until_converge no longer exist.
MainNext ==
    /\ pc = "main_next"
    /\ successful_simulations' =
          IF run_returned[k] THEN successful_simulations + 1
          ELSE successful_simulations
    /\ k' = k + 1
    /\ pc' = IF k < Len(reynolds_values) THEN "reset_fields" ELSE "done"
    /\ iter' = 0 /\ max_diff_u' = 0 /\ max_diff_w' = 0
    /\ exit_via' = "none" /\ status' = "NONE" /\ converged' = FALSE
    /\ u_old' = ZeroField /\ w_old' = ZeroField
    /\ prev_w_change' = -Scale /\ streak' = 0
    /\ calls' = {}
    /\ UNCHANGED <<workers, geometry, estimates, fields, config, statics, run_returned, seed>>

\* ---------------------------------------------------- seeded scenarios
\* The divergence scenarios start from the state after reset_fields,
\* configure_reynolds and borders with one field value replaced at one
\* interior node outside the beam: a node no boundary step touches, a node
\* of the front face, a node beside the upper-left corner, and the first
\* interior node.
SeedNodes == {<<IL + T + 2, H + 2>>, <<IL - 1, 1>>, <<IL - 2, H + 2>>, <<1, 1>>}

SeedValues == {51 * Scale, 1001 * Scale, 12000 * Scale, NaN}

\* vorticity seeds of every value, streamfunction seeds of NaN
Seeds ==
    {[field |-> "w", node |-> n, value |-> v] : n \in SeedNodes, v \in SeedValues}
    \cup {[field |-> "u", node |-> n, value |-> NaN] : n \in SeedNodes}

SeedField ==
    /\ pc = "relax_until_converge"
    /\ seed = NoSeed
    /\ \E s \in Seeds :
          /\ seed' = s
          /\ u' = IF s.field = "u" THEN [u EXCEPT ![s.node] = s.value] ELSE u
          /\ w' = IF s.field = "w" THEN [w EXCEPT ![s.node] = s.value] ELSE w
    /\ UNCHANGED <<workers, geometry, estimates,
                   observers, snapshot, config, statics, loop_state, pc, harness>>

\* The change norms an iteration can produce, for the runs that follow the
\* controller alone.  For u: zero, a value between the tolerance and the
\* acceptance threshold of Re >= 5, a value above every acceptance
\* threshold, and a value above every divergence threshold.  For w: zero,
\* two small values, and one value above each divergence threshold.
UNormValues == {0, 1, 10, 2000 * Scale}

WNormValues == {0, 1, 2, 60 * Scale, 2000 * Scale}

\* One whole iteration (lines 325-413) with the fields left out: the
\* sweeps produce some pair of change norms.
Iterate ==
    /\ pc = "beam_top"
    /\ \E du \in UNormValues, dw \in WNormValues : TerminationRules(du, dw)
    /\ UNCHANGED <<workers, geometry, estimates, fields, snapshot, config, harness, seed>>

\* -------------------------------------------------------- specifications
Next ==
    \/ ResetFields \/ ConfigureReynolds \/ Borders \/ SeedField \/ EnterLoop
    \/ BeamBoundaries \/ Snapshot \/ RelaxStreamFunction \/ RelaxVorticity
    \/ Terminate \/ AfterLoop \/ RunCheck \/ Normalize \/ Export \/ MainNext

\* the program with the fields computed node by node
Spec == Init /\ [][Next]_vars

InitCtl == InitWith(MaxIterations)

NextCtl ==
    \/ ResetFields \/ ConfigureReynolds \/ Borders \/ EnterLoop \/ Iterate
    \/ AfterLoop \/ RunCheck \/ Normalize \/ Export \/ MainNext

\* the program with each iteration reduced to its change norms
SpecCtl == InitCtl /\ [][NextCtl]_vars

\* the loop and the harness are sequential code that keeps running
FairSpecCtl == SpecCtl /\ WF_vars(NextCtl)

\* ------------------------------------------- one sweep near equilibrium
\* relax_stream_function and the convergence test are linear in u and w
\* (h = 1): a sweep acts on a small deviation of the fields as it acts on
\* the fields.  The runs below follow one streamfunction sweep and the
\* convergence test on such a deviation, measured in units of tol / Scale
\* (the integer x stands for x / Scale tolerances), which the resolution of
\* the full-field runs cannot represent.
PoissonDeviations == {0, 50, 200, 1000, 10000}

\* x < k * tol for a value in units of tol / Scale
LessTolFine(x, mult) == ~IsNaN(x) /\ x < mult * Scale

\* u[i+1][j] + u[i-1][j] + u[i][j+1] + u[i][j-1] - 4*u[i][j] + h*h*w[i][j]
Residual(uu, ww, i, j) ==
    Sub(Add(Add(Add(Add(uu[i + 1, j], uu[i - 1, j]), uu[i, j + 1]), uu[i, j - 1]),
            Mul(Mul(h, h), ww[i, j])),
        Times(uu[i, j], 4, 1))

InitPoisson ==
    /\ u = ZeroField /\ w = ZeroField
    /\ u_old = ZeroField /\ w_old = ZeroField
    /\ R_target = 0 /\ nu = 0 /\ omega = 0 /\ R = 0
    /\ max_iterations = MaxIterationsField
    /\ iter = 0 /\ max_diff_u = 0 /\ max_diff_w = 0
    /\ last_w_error = -Scale /\ stagnant_count = 0
    /\ pc = "poisson_input"
    /\ exit_via = "none" /\ status = "NONE" /\ converged = FALSE
    /\ calls = {} /\ run_returned = <<>>
    /\ k = 1 /\ successful_simulations = 0
    /\ seed = NoSeed
    /\ w_from_vertical = 0 /\ w_from_horizontal = 0
    /\ thread_at = <<>> /\ thread_phase = <<>> /\ thread_local = <<>>
    /\ private_max = <<>>
    /\ geometry = BuildGeometry
    /\ prev_w_change = -Scale /\ streak = 0

\* lines 59-78 and 333-346: a configuration, a deviation of u at one
\* compared node, and the snapshot of it
PoissonInput ==
    /\ pc = "poisson_input"
    /\ \E kk \in 1 .. Len(reynolds_values), n \in Interior, d \in PoissonDeviations :
          /\ ~is_inside_beam(n[1], n[2])
          /\ k' = kk
          /\ R_target' = reynolds_values[kk]
          /\ nu' = Viscosity(reynolds_values[kk])
          /\ omega' = OmegaTable(reynolds_values[kk])
          /\ u' = [ZeroField EXCEPT ![n] = d]
          /\ u_old' = [ZeroField EXCEPT ![n] = d]
    /\ pc' = "poisson_sweep"
    /\ status' = "RUNNING"
    /\ UNCHANGED <<workers, geometry, estimates,
                   observers, w, w_old, R, max_iterations, statics, iter, max_diff_u,
                   max_diff_w, exit_via, converged, calls, run_returned,
                   successful_simulations, seed>>

\* line 349
PoissonSweep ==
    /\ pc = "poisson_sweep"
    /\ \E sched \in Schedules :
          u' = relax_stream_function([u |-> u, w |-> w], omega, sched).u
    /\ pc' = "poisson_test"
    /\ UNCHANGED <<workers, geometry, estimates,
                   observers, w, snapshot, config, statics, iter, max_diff_u, max_diff_w,
                   exit_via, status, converged, harness, seed>>

\* lines 357-390: the change norms and the convergence test
PoissonTest ==
    /\ pc = "poisson_test"
    /\ max_diff_u' = max_diff(u, u_old)
    /\ max_diff_w' = max_diff(w, w_old)
    /\ iter' = NextIter(iter)
    /\ status' = IF /\ LessTolFine(max_diff(u, u_old), EffectiveTol(R_target))
                    /\ LessTolFine(max_diff(w, w_old), EffectiveTol(R_target))
                 THEN "CONVERGED" ELSE "RUNNING"
    /\ pc' = "poisson_done"
    /\ UNCHANGED <<workers, geometry, estimates,
                   observers, fields, snapshot, config, statics, exit_via, converged,
                   harness, seed>>

NextPoisson == PoissonInput \/ PoissonSweep \/ PoissonTest

SpecPoisson == InitPoisson /\ [][NextPoisson]_vars

\* ------------------------------------------------- the corner step alone
\* The corner step of beam_boundaries on given face estimates.  Every double
\* is -2.0 * x / (h * h) for some double x, so the two estimates range over
\* numbers of the model's resolution, not only over the even ones that
\* WallVorticity yields from a fixed-point u.
CornerEstimates == {-7, -5, -4, -1, 0, 1, 2, 5, 6, 3 * Scale, NaN}

InitCorner ==
    /\ u = ZeroField /\ w = ZeroField
    /\ u_old = ZeroField /\ w_old = ZeroField
    /\ R_target = 0 /\ nu = 0 /\ omega = 0 /\ R = 0
    /\ max_iterations = MaxIterationsField
    /\ iter = 0 /\ max_diff_u = 0 /\ max_diff_w = 0
    /\ last_w_error = -Scale /\ stagnant_count = 0
    /\ pc = "corner_input"
    /\ exit_via = "none" /\ status = "NONE" /\ converged = FALSE
    /\ calls = {} /\ run_returned = <<>>
    /\ k = 1 /\ successful_simulations = 0
    /\ seed = NoSeed
    /\ w_from_vertical = 0 /\ w_from_horizontal = 0
    /\ thread_at = <<>> /\ thread_phase = <<>> /\ thread_local = <<>>
    /\ private_max = <<>>
    /\ geometry = BuildGeometry
    /\ prev_w_change = -Scale /\ streak = 0

\* lines 59-63, 175-176, 194-195: a configured target and two face estimates
CornerInput ==
    /\ pc = "corner_input"
    /\ \E kk \in 1 .. Len(reynolds_values), wv \in CornerEstimates, wh \in CornerEstimates :
          /\ k' = kk
          /\ R_target' = reynolds_values[kk]
          /\ w_from_vertical' = wv
          /\ w_from_horizontal' = wh
    /\ pc' = "corner_blend"
    /\ UNCHANGED <<workers, geometry, observers, fields, snapshot, nu, omega, R,
                   max_iterations, statics, loop_state, calls, run_returned,
                   successful_simulations, seed>>

\* lines 179-189 and 197-206: the assignment to the two corner nodes
CornerStep ==
    /\ pc = "corner_blend"
    /\ w' = [w EXCEPT
               ![IL - 1, H + 1] = CornerBlend(w_from_vertical, w_from_horizontal, R_target),
               ![IL + T + 1, H + 1] = CornerBlend(w_from_vertical, w_from_horizontal, R_target)]
    /\ pc' = "corner_done"
    /\ UNCHANGED <<workers, geometry, estimates, observers,
                   u, snapshot, config, statics, loop_state, harness,
                   seed>>

NextCorner == CornerInput \/ CornerStep

SpecCorner == InitCorner /\ [][NextCorner]_vars

\* ------------------------------------------------- the serial solver
\* unnamed/part_001: one run at fixed omega and nu, no parallel regions.
\* Its grid and beam are scaled down as well (source: Nxmax = 70,
\* Nymax = 20, IL = 10, H = 8, T = 8), keeping nodes strictly inside the
\* beam rectangle, and so is its iteration cap (source: 100000).
serial_Nxmax == 7
serial_Nymax == 5
serial_IL == 2
serial_H == 2
serial_T == 2
serial_MaxIterations == 8

\* line 15: omega = 0.1, in thousandths
serial_omega == 100
\* line 16: nu = 1.0
serial_nu == Scale
\* line 17: tol = 1e-5, kept as its reciprocal
serial_tol_inv == 100000

\* x > tol
serial_above_tol(x) == ~IsNaN(x) /\ x * serial_tol_inv > Scale

serial_Nodes == (0 .. serial_Nxmax) \X (0 .. serial_Nymax)

\* lines 96, 111, 163, 235: the nodes the sweeps, the norms and the
\* velocity export skip
serial_skipped(i, j) == i >= serial_IL /\ i <= serial_IL + serial_T /\ j <= serial_H

serial_Evaluated(f) == DOMAIN f = serial_Nodes

\* lines 28-33
serial_borders_fill ==
    [u |-> [n \in serial_Nodes |-> n[2] * V0], w |-> [n \in serial_Nodes |-> 0]]

\* lines 36-39
serial_borders_surface(F) ==
    [u |-> [n \in serial_Nodes |->
              IF n[2] = serial_Nymax
              THEN Add(F.u[n[1], serial_Nymax - 1], Mul(V0, h)) ELSE F.u[n]],
     w |-> [n \in serial_Nodes |->
              IF serial_Nymax > 1 /\ n[2] = serial_Nymax - 1 THEN 0 ELSE F.w[n]]]

\* lines 42-45
serial_borders_inlet(F) ==
    [u |-> [n \in serial_Nodes |-> IF n[1] = 1 THEN F.u[0, n[2]] ELSE F.u[n]],
     w |-> [n \in serial_Nodes |-> IF n[1] = 0 THEN 0 ELSE F.w[n]]]

\* lines 48-53
serial_borders_centerline(F) ==
    [u |-> [n \in serial_Nodes |->
              IF n[2] = 0 /\ (n[1] <= serial_IL \/ n[1] >= serial_IL + serial_T)
              THEN 0 ELSE F.u[n]],
     w |-> [n \in serial_Nodes |->
              IF n[2] = 0 /\ (n[1] <= serial_IL \/ n[1] >= serial_IL + serial_T)
              THEN 0 ELSE F.w[n]]]

\* lines 56-59
serial_borders_outlet(F) ==
    [u |-> [n \in serial_Nodes |->
              IF n[1] = serial_Nxmax /\ n[2] >= 1 /\ n[2] < serial_Nymax
              THEN F.u[serial_Nxmax - 1, n[2]] ELSE F.u[n]],
     w |-> [n \in serial_Nodes |->
              IF n[1] = serial_Nxmax /\ n[2] >= 1 /\ n[2] < serial_Nymax
              THEN F.w[serial_Nxmax - 1, n[2]] ELSE F.w[n]]]

\* lines 26-60
serial_borders ==
    serial_borders_outlet(serial_borders_centerline(serial_borders_inlet(
        serial_borders_surface(serial_borders_fill))))

\* lines 65-72: the front and the back of the beam
serial_beam_sides(F) ==
    [u |-> F.u,
     w |-> [n \in serial_Nodes |->
              IF n[2] <= serial_H /\ n[2] <= serial_Nymax /\ n[1] = serial_IL + serial_T
                 /\ serial_IL + serial_T < serial_Nxmax
              THEN WallVorticity(F.u[serial_IL + serial_T + 1, n[2]])
              ELSE IF n[2] <= serial_H /\ n[2] <= serial_Nymax /\ n[1] = serial_IL
                      /\ serial_IL > 0
              THEN WallVorticity(F.u[serial_IL - 1, n[2]])
              ELSE F.w[n]]]

\* lines 75-79: the top of the beam
serial_beam_top(F) ==
    [u |-> F.u,
     w |-> [n \in serial_Nodes |->
              IF /\ n[1] >= serial_IL /\ n[1] <= serial_IL + serial_T /\ n[1] <= serial_Nxmax
                 /\ serial_H < serial_Nymax /\ n[2] = serial_H - 1
              THEN WallVorticity(F.u[n[1], serial_H])
              ELSE F.w[n]]]

\* lines 82-88: u = 0 on the front column, the back column and the top row
serial_beam_zero(F) ==
    [u |-> [n \in serial_Nodes |->
              IF \/ /\ n[1] \in {serial_IL, serial_IL + serial_T}
                    /\ n[2] <= serial_H /\ n[2] <= serial_Nymax
                 \/ /\ n[1] >= serial_IL /\ n[1] <= serial_IL + serial_T
                    /\ n[1] <= serial_Nxmax /\ n[2] = serial_H
              THEN 0 ELSE F.u[n]],
     w |-> F.w]


\* lines 63-89
serial_beam_boundaries(F) == serial_beam_zero(serial_beam_top(serial_beam_sides(F)))

\* lines 96-101: one node of relax_stream_function
serial_relax_u_node(uu, ww, i, j) ==
    IF serial_skipped(i, j) THEN uu
    ELSE LET old_u == uu[i, j]
             new_u == Times(Add(Add(Add(Add(uu[i + 1, j], uu[i - 1, j]), uu[i, j + 1]),
                                    uu[i, j - 1]),
                                Mul(Mul(h, h), ww[i, j])), 1, 4)
             r1 == Times(Sub(new_u, old_u), serial_omega, OmegaDen)
         IN  [uu EXCEPT ![i, j] = Add(old_u, r1)]

RECURSIVE serial_relax_u_from(_, _, _, _)
\* lines 93-103: the nodes in the order of the two loops
serial_relax_u_from(uu, ww, i, j) ==
    IF i > serial_Nxmax - 1 \/ ~serial_Evaluated(uu) THEN uu
    ELSE IF j > serial_Nymax - 1 THEN serial_relax_u_from(uu, ww, i + 1, 1)
    ELSE serial_relax_u_from(serial_relax_u_node(uu, ww, i, j), ww, i, j + 1)

\* lines 92-104
serial_relax_stream_function(F) == [u |-> serial_relax_u_from(F.u, F.w, 1, 1), w |-> F.w]

\* lines 111-122: one node of relax_vorticity
serial_relax_w_node(uu, ww, Rm, i, j) ==
    IF serial_skipped(i, j) THEN ww
    ELSE LET old_w == ww[i, j]
             a1 == Add(Add(Add(ww[i + 1, j], ww[i - 1, j]), ww[i, j + 1]), ww[i, j - 1])
             a2 == Mul(Sub(uu[i, j + 1], uu[i, j - 1]), Sub(ww[i + 1, j], ww[i - 1, j]))
             a3 == Mul(Sub(uu[i + 1, j], uu[i - 1, j]), Sub(ww[i, j + 1], ww[i, j - 1]))
             new_w == Times(Sub(a1, Mul(Times(Rm, 1, 4), Sub(a2, a3))), 1, 4)
             r2 == Times(Sub(new_w, old_w), serial_omega, OmegaDen)
         IN  [ww EXCEPT ![i, j] = Add(old_w, r2)]

RECURSIVE serial_relax_w_from(_, _, _, _, _)
\* lines 108-124
serial_relax_w_from(uu, ww, Rm, i, j) ==
    IF i > serial_Nxmax - 1 \/ ~serial_Evaluated(ww) THEN ww
    ELSE IF j > serial_Nymax - 1 THEN serial_relax_w_from(uu, ww, Rm, i + 1, 1)
    ELSE serial_relax_w_from(uu, serial_relax_w_node(uu, ww, Rm, i, j), Rm, i, j + 1)

\* lines 107-125
serial_relax_vorticity(F, Rm) == [u |-> F.u, w |-> serial_relax_w_from(F.u, F.w, Rm, 1, 1)]

RECURSIVE serial_max_diff_from(_, _, _, _, _)
\* lines 161-168: one of the two change norms
serial_max_diff_from(f, f_old, i, j, acc) ==
    IF i > serial_Nxmax - 1 \/ IsNaN(acc) THEN acc
    ELSE IF j > serial_Nymax - 1 THEN serial_max_diff_from(f, f_old, i + 1, 1, acc)
    ELSE serial_max_diff_from(f, f_old, i, j + 1,
            IF serial_skipped(i, j) THEN acc
            ELSE StdMax(acc, Abs(Sub(f[i, j], f_old[i, j]))))

serial_max_diff(f, f_old) == serial_max_diff_from(f, f_old, 1, 1, 0)

\* lines 180-186
serial_normalize(F) ==
    [u |-> [n \in serial_Nodes |-> Div(F.u[n], Mul(V0, h))], w |-> F.w]

\* std::fixed << std::setprecision(6): the number printed, in millionths
\* (every value of the model is a multiple of 1 / Scale)
Fixed6(x) == IF IsNaN(x) THEN NaN ELSE x * (1000000 \div Scale)

\* std::sqrt of a non-negative number, rounded down to the resolution
Sqrt(x) ==
    IF IsNaN(x) \/ x < 0 THEN NaN
    ELSE CHOOSE r \in 0 .. (x + Scale) : r * r <= x * Scale /\ (r + 1) * (r + 1) > x * Scale

\* the node of the k-th pass of the two export loops "i < Nxmax, j < Nymax"
ExportNode(pos) == <<pos \div serial_Nymax, pos % serial_Nymax>>

ExportPasses == serial_Nxmax * serial_Nymax

\* The state of the serial program: the fields u and w, the snapshot u_old
\* and w_old, R, iter and the two norms are the variables of those names;
\* calls holds the rows written to the three files and k the position of
\* the export loop.
SerialInit ==
    /\ u = [n \in serial_Nodes |-> 0] /\ w = [n \in serial_Nodes |-> 0]
    /\ u_old = [n \in serial_Nodes |-> 0] /\ w_old = [n \in serial_Nodes |-> 0]
    /\ R_target = 0 /\ nu = serial_nu /\ omega = serial_omega /\ R = 0
    /\ max_iterations = serial_MaxIterations
    /\ iter = 0 /\ max_diff_u = 0 /\ max_diff_w = 0
    /\ last_w_error = -Scale /\ stagnant_count = 0
    /\ pc = "serial_borders"
    /\ exit_via = "none" /\ status = "NONE" /\ converged = FALSE
    /\ calls = {} /\ run_returned = <<>>
    /\ k = 0 /\ successful_simulations = 0
    /\ seed = NoSeed
    /\ w_from_vertical = 0 /\ w_from_horizontal = 0
    /\ thread_at = <<>> /\ thread_phase = <<>> /\ thread_local = <<>>
    /\ private_max = <<>>
    /\ geometry = BuildGeometry
    /\ prev_w_change = -Scale /\ streak = 0

\* line 262
SerialBorders ==
    /\ pc = "serial_borders"
    /\ u' = serial_borders.u /\ w' = serial_borders.w
    /\ pc' = "serial_relax_until_converge"
    /\ UNCHANGED <<workers, geometry, estimates,
                   observers, snapshot, config, statics, loop_state, harness, seed>>

\* lines 129-134
SerialEnterLoop ==
    /\ pc = "serial_relax_until_converge"
    /\ iter' = 0
    /\ R' = Div(Mul(V0, h), nu)
    /\ pc' = "serial_beam_boundaries"
    /\ UNCHANGED <<workers, geometry, estimates,
                   observers, fields, snapshot, R_target, nu, omega, max_iterations,
                   statics, max_diff_u, max_diff_w, exit_via, status, converged,
                   harness, seed>>

\* lines 137-141
SerialBeamBoundaries ==
    /\ pc = "serial_beam_boundaries"
    /\ max_diff_u' = 0 /\ max_diff_w' = 0
    /\ LET F == serial_beam_boundaries([u |-> u, w |-> w])
       IN  u' = F.u /\ w' = F.w
    /\ pc' = "serial_snapshot"
    /\ UNCHANGED <<workers, geometry, estimates, observers,
                   snapshot, config, statics, iter, exit_via, status,
                   converged, harness, seed>>

\* lines 144-152
SerialSnapshot ==
    /\ pc = "serial_snapshot"
    /\ u_old' = u /\ w_old' = w
    /\ pc' = "serial_relax_stream_function"
    /\ UNCHANGED <<workers, geometry, estimates,
                   observers, fields, config, statics, loop_state, harness, seed>>

\* line 155
SerialRelaxStreamFunction ==
    /\ pc = "serial_relax_stream_function"
    /\ LET F == serial_relax_stream_function([u |-> u, w |-> w])
       IN  u' = F.u /\ w' = F.w
    /\ pc' = "serial_relax_vorticity"
    /\ UNCHANGED <<workers, geometry, estimates,
                   observers, snapshot, config, statics, loop_state, harness, seed>>

\* line 158
SerialRelaxVorticity ==
    /\ pc = "serial_relax_vorticity"
    /\ LET F == serial_relax_vorticity([u |-> u, w |-> w], R)
       IN  u' = F.u /\ w' = F.w
    /\ pc' = "serial_norms"
    /\ UNCHANGED <<workers, geometry, estimates,
                   observers, snapshot, config, statics, loop_state, harness, seed>>

\* lines 161-173: the norms, ++iter and the loop condition
SerialNorms ==
    /\ pc = "serial_norms"
    /\ max_diff_u' = serial_max_diff(u, u_old)
    /\ max_diff_w' = serial_max_diff(w, w_old)
    /\ iter' = iter + 1
    /\ pc' = IF /\ \/ serial_above_tol(serial_max_diff(u, u_old))
                   \/ serial_above_tol(serial_max_diff(w, w_old))
                /\ iter + 1 < max_iterations
             THEN "serial_beam_boundaries" ELSE "serial_normalize"
    /\ UNCHANGED <<workers, geometry, estimates,
                   observers, fields, snapshot, config, statics, exit_via, status,
                   converged, harness, seed>>

\* line 268
SerialNormalize ==
    /\ pc = "serial_normalize"
    /\ u' = serial_normalize([u |-> u, w |-> w]).u
    /\ k' = 0
    /\ pc' = "serial_export_streamfunction"
    /\ UNCHANGED <<workers, geometry, estimates, observers,
                   w, snapshot, config, statics, loop_state, calls,
                   run_returned, successful_simulations, seed>>

\* lines 195-202 and 214-220: one pass of the loop of export_streamfunction
\* or export_vorticity
SerialExportField ==
    /\ pc \in {"serial_export_streamfunction", "serial_export_vorticity"}
    /\ LET n == ExportNode(k)
           f == IF pc = "serial_export_streamfunction" THEN u ELSE w
       IN  calls' = calls \cup {[file |-> pc, i |-> n[1], j |-> n[2],
                                 value |-> <<Fixed6(f[n])>>]}
    /\ IF k + 1 < ExportPasses
       THEN k' = k + 1 /\ pc' = pc
       ELSE /\ k' = 0
            /\ pc' = IF pc = "serial_export_streamfunction"
                     THEN "serial_export_vorticity" ELSE "serial_export_velocity_field"
    /\ UNCHANGED <<workers, geometry, estimates, observers,
                   fields, snapshot, config, statics, loop_state,
                   run_returned, successful_simulations, seed>>

\* lines 232-247: one pass of the loop of export_velocity_field, which
\* visits 1 <= i < Nxmax - 1, 1 <= j < Nymax - 1 and skips the beam
SerialExportVelocity ==
    /\ pc = "serial_export_velocity_field"
    /\ LET n == ExportNode(k)
           i == n[1]
           j == n[2]
           vx == Times(Sub(u[i, j + 1], u[i, j - 1]), 1, 2)
           vy == Times(Sub(u[i + 1, j], u[i - 1, j]), -1, 2)
           v_mag == Sqrt(Add(Mul(vx, vx), Mul(vy, vy)))
       IN  calls' = IF /\ i >= 1 /\ i < serial_Nxmax - 1 /\ j >= 1 /\ j < serial_Nymax - 1
                       /\ ~serial_skipped(i, j)
                    THEN calls \cup {[file |-> pc, i |-> i, j |-> j,
                                      value |-> <<Fixed6(vx), Fixed6(vy), Fixed6(v_mag)>>]}
                    ELSE calls
    /\ IF k + 1 < ExportPasses
       THEN k' = k + 1 /\ pc' = pc
       ELSE k' = 0 /\ pc' = "serial_done"
    /\ UNCHANGED <<workers, geometry, estimates, observers,
                   fields, snapshot, config, statics, loop_state,
                   run_returned, successful_simulations, seed>>

SerialNext ==
    \/ SerialBorders \/ SerialEnterLoop \/ SerialBeamBoundaries \/ SerialSnapshot
    \/ SerialRelaxStreamFunction \/ SerialRelaxVorticity \/ SerialNorms
    \/ SerialNormalize \/ SerialExportField \/ SerialExportVelocity

\* the serial program
SpecSerial == SerialInit /\ [][SerialNext]_vars

\* ------------------------------------------- a sweep thread by thread
\* "#pragma omp parallel for" of relax_stream_function and relax_vorticity
\* followed node by node: two threads, each with one contiguous chunk of
\* the columns (the chunks of ColumnOrder), no synchronisation before the
\* barrier that ends the loop.  The update of a node is two accesses to the
\* shared array: the reads of the stencil, then the write of the node.
Threads == {0, 1}

ChunkFirst(t) == IF t = 0 THEN 1 ELSE MidColumn + 1

ChunkLast(t) == IF t = 0 THEN MidColumn ELSE Nxmax - 1

\* the thread has run through its columns
ThreadDone(t) == thread_at[t][1] > ChunkLast(t)

\* lines 250-251 / 265-266: the node after n in the two nested loops
NodeAfter(n) == IF n[2] < Nymax - 1 THEN <<n[1], n[2] + 1>> ELSE <<n[1] + 1, 1>>

\* the cells of the swept array that the update of node n reads
Stencil(n) ==
    {<<n[1] + 1, n[2]>>, <<n[1] - 1, n[2]>>, <<n[1], n[2] + 1>>, <<n[1], n[2] - 1>>, n}

InitSweep ==
    /\ u = ZeroField /\ w = ZeroField
    /\ u_old = ZeroField /\ w_old = ZeroField
    /\ R_target = 0 /\ nu = 0 /\ omega = 0 /\ R = 0
    /\ max_iterations = MaxIterationsField
    /\ iter = 0 /\ max_diff_u = 0 /\ max_diff_w = 0
    /\ last_w_error = -Scale /\ stagnant_count = 0
    /\ pc = "sweep_input"
    /\ exit_via = "none" /\ status = "NONE" /\ converged = FALSE
    /\ calls = {} /\ run_returned = <<>>
    /\ k = 1 /\ successful_simulations = 0
    /\ seed = NoSeed
    /\ w_from_vertical = 0 /\ w_from_horizontal = 0
    /\ thread_at = <<>> /\ thread_phase = <<>> /\ thread_local = <<>>
    /\ private_max = <<>>
    /\ geometry = BuildGeometry
    /\ prev_w_change = -Scale /\ streak = 0

\* lines 554-558, 305, 330-349: a run up to the first sweep of its first
\* iteration (up to the second one, with the first done by one thread), and
\* the fork of the parallel loop
SweepFork ==
    /\ pc = "sweep_input"
    /\ \E kk \in 1 .. Len(reynolds_values),
          which \in {"sweep_stream_function", "sweep_vorticity"} :
          LET rt == reynolds_values[kk]
              F0 == beam_boundaries(borders, rt)
              F1 == IF which = "sweep_stream_function" THEN F0
                    ELSE relax_stream_function(F0, OmegaTable(rt), 0)
          IN  /\ k' = kk
              /\ R_target' = rt
              /\ nu' = Viscosity(rt)
              /\ omega' = OmegaTable(rt)
              /\ R' = MeshReynolds(Viscosity(rt))
              /\ u_old' = F0.u /\ w_old' = F0.w
              /\ u' = F1.u /\ w' = F1.w
              /\ pc' = which
    /\ thread_at' = [t \in Threads |-> <<ChunkFirst(t), 1>>]
    /\ thread_phase' = [t \in Threads |-> "read"]
    /\ thread_local' = [t \in Threads |-> 0]
    /\ status' = "RUNNING"
    /\ UNCHANGED <<private_max, geometry, estimates, observers, max_iterations, statics, iter,
                   max_diff_u, max_diff_w, exit_via, converged, harness_rest, seed>>

\* lines 252-256 / 267-293: a thread skips a node of the beam, or reads the
\* stencil of its node and computes the new value
ThreadRead(t) ==
    /\ pc \in {"sweep_stream_function", "sweep_vorticity"}
    /\ ~ThreadDone(t)
    /\ thread_phase[t] = "read"
    /\ LET n == thread_at[t]
       IN  IF is_inside_beam(n[1], n[2])
           THEN /\ thread_at' = [thread_at EXCEPT ![t] = NodeAfter(n)]
                /\ UNCHANGED <<thread_phase, thread_local>>
           ELSE /\ thread_local' =
                      [thread_local EXCEPT ![t] =
                          IF pc = "sweep_stream_function"
                          THEN relax_u_node(u, w, omega, n[1], n[2])[n]
                          ELSE relax_w_node(u, w, omega, R_target, R, n[1], n[2])[n]]
                /\ thread_phase' = [thread_phase EXCEPT ![t] = "write"]
                /\ UNCHANGED thread_at
    /\ UNCHANGED <<private_max, geometry, estimates, observers, fields, snapshot, config, statics,
                   pc, loop_state, harness, seed>>

\* line 257 / 276, 294: the thread writes its node
ThreadWrite(t) ==
    /\ pc \in {"sweep_stream_function", "sweep_vorticity"}
    /\ ~ThreadDone(t)
    /\ thread_phase[t] = "write"
    /\ IF pc = "sweep_stream_function"
       THEN u' = [u EXCEPT ![thread_at[t]] = thread_local[t]] /\ UNCHANGED w
       ELSE w' = [w EXCEPT ![thread_at[t]] = thread_local[t]] /\ UNCHANGED u
    /\ thread_at' = [thread_at EXCEPT ![t] = NodeAfter(thread_at[t])]
    /\ thread_phase' = [thread_phase EXCEPT ![t] = "read"]
    /\ UNCHANGED <<thread_local, private_max, geometry, estimates, observers, snapshot, config,
                   statics, pc, loop_state, harness, seed>>

\* lines 259 / 297: the barrier at the end of the parallel loop
SweepJoin ==
    /\ pc \in {"sweep_stream_function", "sweep_vorticity"}
    /\ \A t \in Threads : ThreadDone(t)
    /\ pc' = "sweep_joined"
    /\ UNCHANGED <<workers, geometry, estimates, observers, fields, snapshot, config, statics,
                   iter, max_diff_u, max_diff_w, exit_via, status, converged, harness,
                   seed>>

NextSweep ==
    \/ SweepFork
    \/ \E t \in Threads : ThreadRead(t) \/ ThreadWrite(t)
    \/ SweepJoin

SpecSweep == InitSweep /\ [][NextSweep]_vars

\* ------------------------------------------ the change-norm reduction
\* "#pragma omp parallel for reduction(max:max_diff_u,max_diff_w)" followed
\* column by column: every thread owns a private copy of the two maxima,
\* initialised to the lowest value, and the copies are combined with the
\* original variables (0.0, line 327) when the loop ends.  The columns are
\* dealt to the two threads in every possible way.
Lowest == -2147483647

\* the accumulator that thread t updates inside the loop: its private copy
AccumulatorShared(t) == 0

Accumulator(t) == t

RECURSIVE Ascending(_)
\* the columns of a set in the order a thread runs through them
Ascending(S) ==
    IF S = {} THEN <<>>
    ELSE LET m == CHOOSE x \in S : \A y \in S : x <= y
         IN  <<m>> \o Ascending(S \ {m})

\* nodes whose change is raised to put the maximum in a chosen place: one in
\* each thread's usual chunk, one beside the beam, one inside the beam and
\* one on the domain edge
RaisedNodes == {<<1, 1>>, <<Nxmax - 1, Nymax - 1>>, <<IL - 1, 1>>, <<IL, H>>, <<0, 2>>}

RaisedBy == 7 * Scale

InitReduce ==
    /\ u = ZeroField /\ w = ZeroField
    /\ u_old = ZeroField /\ w_old = ZeroField
    /\ R_target = 0 /\ nu = 0 /\ omega = 0 /\ R = 0
    /\ max_iterations = MaxIterationsField
    /\ iter = 0 /\ max_diff_u = 0 /\ max_diff_w = 0
    /\ last_w_error = -Scale /\ stagnant_count = 0
    /\ pc = "reduce_input"
    /\ exit_via = "none" /\ status = "NONE" /\ converged = FALSE
    /\ calls = {} /\ run_returned = <<>>
    /\ k = 1 /\ successful_simulations = 0
    /\ seed = NoSeed
    /\ w_from_vertical = 0 /\ w_from_horizontal = 0
    /\ thread_at = <<>> /\ thread_phase = <<>> /\ thread_local = <<>>
    /\ private_max = <<>>
    /\ geometry = BuildGeometry
    /\ prev_w_change = -Scale /\ streak = 0

\* lines 326-358: the first iteration of a run up to the norm loop, with the
\* change of one node raised in one field, and the fork of the loop
ReduceFork ==
    /\ pc = "reduce_input"
    /\ \E kk \in {1, Len(reynolds_values)}, n \in RaisedNodes, f \in {"u", "w"} :
          LET rt == reynolds_values[kk]
              F0 == beam_boundaries(borders, rt)
              F1 == relax_stream_function(F0, OmegaTable(rt), 0)
              F2 == relax_vorticity(F1, OmegaTable(rt), rt, MeshReynolds(Viscosity(rt)), 0)
              F3 == beam_boundaries(F2, rt)
          IN  /\ k' = kk
              /\ R_target' = rt
              /\ nu' = Viscosity(rt)
              /\ omega' = OmegaTable(rt)
              /\ R' = MeshReynolds(Viscosity(rt))
              /\ u_old' = F0.u /\ w_old' = F0.w
              /\ u' = IF f = "u" THEN [F3.u EXCEPT ![n] = Add(@, RaisedBy)] ELSE F3.u
              /\ w' = IF f = "w" THEN [F3.w EXCEPT ![n] = Add(@, RaisedBy)] ELSE F3.w
    /\ \E owner \in [1 .. (Nxmax - 1) -> Threads] :
          thread_at' = [t \in Threads |->
                          Ascending({c \in 1 .. (Nxmax - 1) : owner[c] = t})]
    /\ thread_phase' = [t \in Threads |-> "read"]
    /\ thread_local' = [t \in Threads |-> [u |-> Lowest, w |-> Lowest]]
    /\ private_max' = [t \in Threads |-> [u |-> Lowest, w |-> Lowest]]
    /\ max_diff_u' = 0 /\ max_diff_w' = 0
    /\ pc' = "reduce_loop"
    /\ status' = "RUNNING"
    /\ UNCHANGED <<geometry, estimates, observers, max_iterations, statics, iter, exit_via,
                   converged, harness_rest, seed>>

\* lines 359-365: a thread runs through its next column, starting from the
\* maxima it reads in its accumulator
ThreadScan(t) ==
    /\ pc = "reduce_loop"
    /\ thread_at[t] # <<>>
    /\ thread_phase[t] = "read"
    /\ thread_local' =
          [thread_local EXCEPT ![t] =
              [u |-> max_diff_column(u, u_old, Head(thread_at[t]), 1,
                                     private_max[Accumulator(t)].u),
               w |-> max_diff_column(w, w_old, Head(thread_at[t]), 1,
                                     private_max[Accumulator(t)].w)]]
    /\ thread_phase' = [thread_phase EXCEPT ![t] = "write"]
    /\ UNCHANGED <<thread_at, private_max, geometry, estimates, observers, fields, snapshot,
                   config, statics, pc, loop_state, harness, seed>>

\* lines 363-364: the thread stores the maxima in its accumulator
ThreadStore(t) ==
    /\ pc = "reduce_loop"
    /\ thread_at[t] # <<>>
    /\ thread_phase[t] = "write"
    /\ private_max' = [private_max EXCEPT ![Accumulator(t)] = thread_local[t]]
    /\ thread_at' = [thread_at EXCEPT ![t] = Tail(thread_at[t])]
    /\ thread_phase' = [thread_phase EXCEPT ![t] = "read"]
    /\ UNCHANGED <<thread_local, geometry, estimates, observers, fields, snapshot, config,
                   statics, pc, loop_state, harness, seed>>

RECURSIVE Combine(_, _, _)
\* the copies of a set of threads combined into an original value, one
\* after the other
Combine(acc, f, S) ==
    IF S = {} THEN acc
    ELSE LET t == CHOOSE x \in S : TRUE
         IN  Combine(StdMax(acc, private_max[t][f]), f, S \ {t})

\* line 358: the end of the loop
ReduceJoin ==
    /\ pc = "reduce_loop"
    /\ \A t \in Threads : thread_at[t] = <<>>
    /\ max_diff_u' = Combine(max_diff_u, "u", Threads)
    /\ max_diff_w' = Combine(max_diff_w, "w", Threads)
    /\ pc' = "reduce_joined"
    /\ UNCHANGED <<workers, geometry, estimates, observers, fields, snapshot, config, statics,
                   iter, exit_via, status, converged, harness, seed>>

NextReduce ==
    \/ ReduceFork
    \/ \E t \in Threads : ThreadScan(t) \/ ThreadStore(t)
    \/ ReduceJoin

SpecReduce == InitReduce /\ [][NextReduce]_vars

\* ------------------------------------ beam_boundaries on any geometry
\* Nxmax, Nymax, IL, H and T are constants of the source; the runs below
\* build the program with each geometry, up to a grid size, whose obstacle
\* rectangle lies inside [1, Nxmax-1] x [0, Nymax-1], and collect the array
\* elements one call of beam_boundaries reads and writes.
GeometryMaxNx == 6
GeometryMaxNy == 5

Geometries ==
    {g \in [Nxmax : 3 .. GeometryMaxNx, Nymax : 2 .. GeometryMaxNy,
            IL : 1 .. GeometryMaxNx, H : 1 .. GeometryMaxNy, T : 1 .. GeometryMaxNx] :
        g.IL + g.T <= g.Nxmax - 1 /\ g.H <= g.Nymax - 1}

Access(kind, array, i, j) == [kind |-> kind, array |-> array, i |-> i, j |-> j]

\* line 87, on the geometry g
InsideBeamOf(g, i, j) == i >= g.IL /\ i <= g.IL + g.T /\ j >= 0 /\ j <= g.H

\* lines 141-147
AccessesZero(g) ==
    UNION {{Access("write", "u", i, j), Access("write", "w", i, j)} :
             i \in {x \in g.IL .. (g.IL + g.T) : x <= g.Nxmax},
             j \in {y \in 0 .. g.H : y <= g.Nymax}}

\* lines 150-169
AccessesFaces(g) ==
    LET rows == {j \in 1 .. g.H : j < g.Nymax}
        cols == {i \in g.IL .. (g.IL + g.T) : i <= g.Nxmax}
    IN  (IF g.IL > 0
         THEN UNION {{Access("write", "w", g.IL - 1, j), Access("read", "u", g.IL - 2, j)} :
                       j \in rows}
         ELSE {})
        \cup
        (IF g.IL + g.T + 1 <= g.Nxmax
         THEN UNION {{Access("write", "w", g.IL + g.T + 1, j),
                      Access("read", "u", g.IL + g.T + 2, j)} : j \in rows}
         ELSE {})
        \cup
        (IF g.H + 1 <= g.Nymax
         THEN UNION {{Access("write", "w", i, g.H + 1), Access("read", "u", i, g.H + 2)} :
                       i \in cols}
         ELSE {})

\* lines 172-207
AccessesCorners(g) ==
    (IF g.IL > 0 /\ g.H + 1 <= g.Nymax
     THEN {Access("read", "u", g.IL - 2, g.H + 1), Access("read", "u", g.IL - 1, g.H + 2),
           Access("write", "w", g.IL - 1, g.H + 1)}
     ELSE {})
    \cup
    (IF g.IL + g.T + 1 <= g.Nxmax /\ g.H + 1 <= g.Nymax
     THEN {Access("read", "u", g.IL + g.T + 2, g.H + 1),
           Access("read", "u", g.IL + g.T + 1, g.H + 2),
           Access("write", "w", g.IL + g.T + 1, g.H + 1)}
     ELSE {})

\* lines 210-243: the elements the smoothing pass can touch, whatever the
\* values are
AccessesSmooth(g, rt) ==
    IF HighReynolds(rt) /\ g.IL > 1 /\ g.H + 2 <= g.Nymax
    THEN LET centres == {c \in ((g.IL - 2) .. g.IL) \X (g.H .. (g.H + 2)) :
                            /\ c[1] > 0 /\ c[1] < g.Nxmax /\ c[2] > 0 /\ c[2] < g.Nymax
                            /\ ~InsideBeamOf(g, c[1], c[2])}
             around(c) == {n \in ((c[1] - 1) .. (c[1] + 1)) \X ((c[2] - 1) .. (c[2] + 1)) :
                            /\ n[1] >= 0 /\ n[1] <= g.Nxmax /\ n[2] >= 0 /\ n[2] <= g.Nymax
                            /\ ~InsideBeamOf(g, n[1], n[2]) /\ n # c}
         IN  UNION {{Access("read", "w", c[1], c[2]), Access("write", "w", c[1], c[2])}
                    \cup {Access("read", "w", n[1], n[2]) : n \in around(c)} :
                      c \in centres}
    ELSE {}

\* lines 140-245
BeamAccesses(g, rt) ==
    AccessesZero(g) \cup AccessesFaces(g) \cup AccessesCorners(g) \cup AccessesSmooth(g, rt)

InitGeometry ==
    /\ u = ZeroField /\ w = ZeroField
    /\ u_old = ZeroField /\ w_old = ZeroField
    /\ R_target = 0 /\ nu = 0 /\ omega = 0 /\ R = 0
    /\ max_iterations = MaxIterationsField
    /\ iter = 0 /\ max_diff_u = 0 /\ max_diff_w = 0
    /\ last_w_error = -Scale /\ stagnant_count = 0
    /\ pc = "geometry_input"
    /\ exit_via = "none" /\ status = "NONE" /\ converged = FALSE
    /\ calls = {} /\ run_returned = <<>>
    /\ k = 1 /\ successful_simulations = 0
    /\ seed = NoSeed
    /\ w_from_vertical = 0 /\ w_from_horizontal = 0
    /\ thread_at = <<>> /\ thread_phase = <<>> /\ thread_local = <<>>
    /\ private_max = <<>>
    /\ geometry = BuildGeometry
    /\ prev_w_change = -Scale /\ streak = 0

\* lines 13-17 and 59-60: a build with some geometry, configured for a target
GeometryInput ==
    /\ pc = "geometry_input"
    /\ \E g \in Geometries, kk \in 1 .. Len(reynolds_values) :
          /\ geometry' = g
          /\ k' = kk
          /\ R_target' = reynolds_values[kk]
    /\ pc' = "geometry_beam_boundaries"
    /\ UNCHANGED <<workers, estimates, observers, fields, snapshot, nu, omega, R,
                   max_iterations, statics, loop_state, calls, run_returned,
                   successful_simulations, seed>>

\* line 330: one call of beam_boundaries; calls receives its accesses
GeometryBeamBoundaries ==
    /\ pc = "geometry_beam_boundaries"
    /\ calls' = BeamAccesses(geometry, R_target)
    /\ pc' = "geometry_done"
    /\ UNCHANGED <<workers, geometry, estimates, observers, fields, snapshot, config,
                   statics, loop_state, run_returned, k, successful_simulations, seed>>

NextGeometry == GeometryInput \/ GeometryBeamBoundaries

SpecGeometry == InitGeometry /\ [][NextGeometry]_vars

\* ================================================================ claims
\* the nodes of the obstacle rectangle, written out
ObstacleNodes == {n \in Nodes : IL <= n[1] /\ n[1] <= IL + T /\ 0 <= n[2] /\ n[2] <= H}

\* the nodes the change norms compare
ComparedNodes == Interior \ ObstacleNodes

\* the program is between the return of borders and the end of run_simulation
AfterBorders == pc \notin {"reset_fields", "configure_reynolds", "borders", "done"}

\* C1: from the return of borders() to the end of run_simulation, after every
\* beam_boundaries call, every sweep and normalize, u and w are zero at every
\* node of the obstacle rectangle, for every target Reynolds number.
C1_ObstacleZero ==
    AfterBorders => \A n \in ObstacleNodes : u[n] = 0 /\ w[n] = 0

\* C1 witness: a run has iterated, been accepted and normalized, with a
\* non-trivial streamfunction outside the obstacle.
C1_Witness ==
    /\ pc = "export_streamfunction"
    /\ iter >= 1
    /\ "normalize" \in calls
    /\ \E n \in ComparedNodes : u[n] # 0 /\ w[n] # 0

\* C2 (as claimed): whatever the fields and the target Reynolds number, a
\* second beam_boundaries call right after a first one changes nothing.
C2_Idempotent ==
    R_target \in {reynolds_values[i] : i \in 1 .. Len(reynolds_values)} =>
        LET F1 == beam_boundaries([u |-> u, w |-> w], R_target)
        IN  beam_boundaries(F1, R_target) = F1

\* the first iteration of the current relax_until_converge call has just ended
FirstIterationEnded ==
    /\ iter = 1
    /\ pc \in {"beam_top", "after_loop", "returned"}

\* the vorticity was seeded with a magnitude above the divergence threshold
\* (1000 below Re = 5, 50 from Re = 5 on)
SeededAboveThreshold ==
    /\ seed.field = "w"
    /\ Greater(Abs(seed.value), IF R_target >= 50 THEN 50 * Scale ELSE 1000 * Scale)

\* the change of u or of w over the iteration exceeds the divergence
\* threshold at some compared node
SomeNodeChangeAbove ==
    LET thr == IF R_target >= 50 THEN 50 * Scale ELSE 1000 * Scale
    IN  \E n \in ComparedNodes :
           \/ Greater(Abs(Sub(u[n], u_old[n])), thr)
           \/ Greater(Abs(Sub(w[n], w_old[n])), thr)

\* C3 (as claimed): after a vorticity seed above the divergence threshold the
\* first iteration ends the run as DIVERGED.
C3_SeedDiverges ==
    (FirstIterationEnded /\ SeededAboveThreshold) => status = "DIVERGED"

\* C3 (amended): after such a seed the first iteration ends the run as
\* DIVERGED exactly when the change of u or w over that iteration exceeds the
\* threshold at some compared node, and it never ends it as CONVERGED.
C3_SeedDivergesIffChange ==
    (FirstIterationEnded /\ SeededAboveThreshold) =>
        /\ (status = "DIVERGED") <=> SomeNodeChangeAbove
        /\ exit_via # "converged"
        /\ status # "CONVERGED"

\* C3 witness: a seed above the threshold whose first iteration ends DIVERGED
C3_Witness ==
    /\ FirstIterationEnded /\ SeededAboveThreshold
    /\ status = "DIVERGED" /\ pc = "returned" /\ ~converged

\* an iteration of the current call has just ended
IterationEnded ==
    /\ iter >= 1
    /\ pc \in {"beam_top", "after_loop", "returned"}

\* the change of u or w at some compared node is not-a-number
SomeNodeChangeNaN ==
    \E n \in ComparedNodes :
       IsNaN(Sub(u[n], u_old[n])) \/ IsNaN(Sub(w[n], w_old[n]))

\* C4 (as claimed): an iteration in which the change at some compared node is
\* not-a-number or above the divergence threshold ends the run as DIVERGED,
\* returning false.
C4_NaNOrLargeDiverges ==
    (IterationEnded /\ (SomeNodeChangeNaN \/ SomeNodeChangeAbove)) =>
        (status = "DIVERGED" /\ ~converged)

\* the acceptance threshold written out: tol * 200 * 20000 from Re = 5 on,
\* else tol * (50, 10 or 1) * 1000
AcceptedByU ==
    LessTol(max_diff_u,
            IF R_target >= 50 THEN 4000000
            ELSE IF R_target > 20 THEN 50000
            ELSE IF R_target > 15 THEN 10000
            ELSE 1000)

AllCalls ==
    {"normalize", "export_streamfunction", "export_vorticity", "export_velocity_field"}

\* C5: normalize and the three exports are called exactly when
\* relax_until_converge returned true (CONVERGED, PARTIALLY_CONVERGED or an
\* accepted MAX_ITERATIONS_EXCEEDED); after DIVERGED or a rejected
\* MAX_ITERATIONS_EXCEEDED nothing is called and run_simulation returns false.
C5_ExportIffAccepted ==
    /\ calls # {} =>
          /\ converged
          /\ status \in {"CONVERGED", "PARTIALLY_CONVERGED", "MAX_ITERATIONS_EXCEEDED"}
    /\ pc = "main_next" =>
          /\ (calls = AllCalls) <=> converged
          /\ run_returned[k] = converged
          /\ ~converged => (calls = {} /\ status \in {"DIVERGED", "MAX_ITERATIONS_EXCEEDED"})
          /\ converged <=> \/ status \in {"CONVERGED", "PARTIALLY_CONVERGED"}
                          \/ (status = "MAX_ITERATIONS_EXCEEDED" /\ AcceptedByU)

\* C5 witness: a run accepted at the iteration cap has been normalized and
\* exported
C5_Witness ==
    /\ pc = "main_next"
    /\ status = "MAX_ITERATIONS_EXCEEDED"
    /\ calls = AllCalls /\ run_returned[k]

\* C6 (as claimed): a run whose loop was left by the convergence rule is
\* reported as CONVERGED, whatever the iteration number.
C6_ConvergedWins ==
    (pc = "returned" /\ exit_via = "converged") => status = "CONVERGED"

\* C7 (as claimed): a run ends as PARTIALLY_CONVERGED only above the
\* iteration threshold, with the u change below tolerance and the w change
\* equal to that of the preceding iteration for more than patience
\* consecutive iterations of the run.
C7_PartialOnlyAfterWindow ==
    (pc = "after_loop" /\ exit_via = "partial") =>
        /\ iter > PartialMinIter
        /\ LessTol(max_diff_u, EffectiveTol(R_target))
        /\ streak > (IF R_target >= 50 THEN PatienceHigh ELSE PatienceLow)

\* C8 (as claimed): on entry of relax_until_converge the iteration counter
\* and the stagnation counter are 0 and no vorticity change is remembered.
C8_StateResetAtEntry ==
    (pc = "beam_top" /\ iter = 0) =>
        (stagnant_count = 0 /\ last_w_error = -Scale)

\* C9 (as claimed): when the iteration counter has reached max_iterations,
\* the return value is true exactly when the u change is below the
\* acceptance threshold.
C9_CapDecidedByU ==
    (pc = "returned" /\ iter >= max_iterations) => (converged <=> AcceptedByU)

\* C9 (amended): when the iteration counter has reached max_iterations and
\* the last iteration did not end the run as DIVERGED, the return value is
\* true exactly when the u change is below the acceptance threshold.
C9_CapDecidedByUUnlessDiverged ==
    (pc = "returned" /\ iter >= max_iterations /\ status # "DIVERGED") =>
        (converged <=> AcceptedByU)

\* C9 witness: accepted at the cap although the w change is above tolerance
C9_Witness ==
    /\ pc = "returned" /\ iter = max_iterations
    /\ status = "MAX_ITERATIONS_EXCEEDED" /\ converged
    /\ max_diff_u > 0 /\ max_diff_w > max_diff_u

TerminalStates ==
    {"CONVERGED", "PARTIALLY_CONVERGED", "DIVERGED", "MAX_ITERATIONS_EXCEEDED"}

\* C10: every call of relax_until_converge returns, after at least one and at
\* most max_iterations iterations, in one of the four terminal states.
C10_Terminates ==
    /\ [](pc = "returned" =>
            /\ iter >= 1 /\ iter <= max_iterations
            /\ status \in TerminalStates)
    /\ (pc = "relax_until_converge") ~> (pc = "returned")

\* C10 witness: a call that returned after max_iterations iterations
C10_Witness ==
    /\ pc = "returned" /\ iter = max_iterations
    /\ status \in TerminalStates

\* the fields relax_until_converge was entered with: those of borders, with
\* the seeded value if there is one
EntryField ==
    [u |-> IF seed.field = "u" THEN [borders.u EXCEPT ![seed.node] = seed.value]
           ELSE borders.u,
     w |-> IF seed.field = "w" THEN [borders.w EXCEPT ![seed.node] = seed.value]
           ELSE borders.w]

\* the back-face wall vorticity of the field F agrees with its streamfunction
BackFaceEnforced(F) ==
    \A j \in 1 .. H : F.w[IL + T + 1, j] = WallVorticity(F.u[IL + T + 2, j])

OutflowZeroGradient ==
    \A j \in 1 .. (Nymax - 1) :
       u[Nxmax, j] = u[Nxmax - 1, j] /\ w[Nxmax, j] = w[Nxmax - 1, j]

\* lines 114-120: the first column copies the inlet column
InletZeroGradient == \A j \in 0 .. Nymax : u[1, j] = u[0, j]

\* lines 106-112: no vorticity on the row below the free surface
SurfaceRowIrrotational == \A i \in 0 .. Nxmax : w[i, Nymax - 1] = 0

\* C12 (as claimed): at the end of every iteration of relax_until_converge
\* the domain-edge constraints of borders() hold: zero-gradient outflow,
\* u[1][j] = u[0][j] at the inlet, w = 0 on the row below the free surface.
C12_EdgesReimposed ==
    (IterationEnded /\ seed = NoSeed) =>
        (OutflowZeroGradient /\ InletZeroGradient /\ SurfaceRowIrrotational)

\* C13 (as claimed): once the convergence test is passed, every compared
\* node satisfies |u[i+1][j] + u[i-1][j] + u[i][j+1] + u[i][j-1] - 4*u[i][j]
\* + h*h*w[i][j]| < tolerance (taken as the adaptive tolerance, the largest
\* the claim can mean).
C13_PoissonConsistent ==
    (pc = "poisson_done" /\ status = "CONVERGED") =>
        \A n \in ComparedNodes :
           LessTolFine(Abs(Residual(u, w, n[1], n[2])), EffectiveTol(R_target))

\* the configuration of the current run is in force
ConfigInForce ==
    pc \notin {"reset_fields", "configure_reynolds", "borders", "relax_until_converge",
               "main_next", "done", "poisson_input", "poisson_sweep", "poisson_test",
               "poisson_done"}

\* C14: whatever was configured and run before, once configure_reynolds and
\* the mesh-Reynolds computation have run for a target, nu = V0 * h / Re,
\* omega is the table entry of the target and R = V0 * h / nu.
C14_ConfigFromTargetOnly ==
    ConfigInForce =>
        /\ R_target = reynolds_values[k]
        /\ nu = Div(Mul(V0, h), ReValue(R_target))
        /\ omega = OmegaTable(R_target)
        /\ R = Div(Mul(V0, h), nu)

\* the last target is configured after a run that failed and one that did not
C14_Witness ==
    /\ ConfigInForce
    /\ k = Len(reynolds_values)
    /\ \E a, b \in DOMAIN run_returned : run_returned[a] /\ ~run_returned[b]

\* the number of runs that returned true
ReturnedTrue == Cardinality({a \in DOMAIN run_returned : run_returned[a]})

\* C15: the targets are run in list order, one run each (a failed run is
\* not retried and the sweep goes on to the end of the list), the fields
\* are zero when a run is configured, and the final success count is the
\* number of runs that returned true.
C15_SweepOfMain ==
    /\ Len(run_returned) = (IF pc = "main_next" THEN k ELSE k - 1)
    /\ pc = "done" <=> k = Len(reynolds_values) + 1
    /\ pc = "configure_reynolds" => (u = ZeroField /\ w = ZeroField)
    /\ pc = "borders" => R_target = reynolds_values[k]
    /\ pc = "main_next" => successful_simulations = ReturnedTrue - (IF run_returned[k] THEN 1 ELSE 0)
    /\ pc \notin {"main_next"} => successful_simulations = ReturnedTrue

\* the sweep ended after a failed first run and a successful later one
C15_Witness ==
    /\ pc = "done"
    /\ ~run_returned[1]
    /\ run_returned[Len(reynolds_values)]
    /\ successful_simulations < Len(reynolds_values)

\* the nodes no sweep writes: the domain edges and the obstacle rectangle
UnsweptNodes == Nodes \ ComparedNodes

\* C16: relax_stream_function leaves w unchanged everywhere and u unchanged
\* at the obstacle and domain-edge nodes; relax_vorticity leaves u unchanged
\* everywhere and w unchanged at the obstacle and domain-edge nodes.
C16_SweepsWriteOwnField ==
    [][/\ pc = "relax_stream_function" =>
            (w' = w /\ \A n \in UnsweptNodes : u'[n] = u[n])
       /\ pc = "relax_vorticity" =>
            (u' = u /\ \A n \in UnsweptNodes : w'[n] = w[n])]_vars

\* both sweeps of an iteration have run and each changed its field
C16_Witness ==
    /\ pc = "beam_bottom"
    /\ u # u_old /\ w # w_old
    /\ \A n \in UnsweptNodes : u[n] = u_old[n] /\ w[n] = w_old[n]

\* the rows of streamfunction.dat for the nodes of the beam rectangle
SerialObstacleRows ==
    {r \in calls : /\ r.file = "serial_export_streamfunction"
                   /\ r.i >= serial_IL /\ r.i <= serial_IL + serial_T
                   /\ r.j >= 0 /\ r.j <= serial_H}

\* C17 (as claimed): in the serial solver every exported streamfunction
\* value at a node of the beam rectangle, the nodes strictly inside it
\* included, is exactly zero.
C17_SerialObstacleExportZero == \A r \in SerialObstacleRows : r.value = <<0>>

\* beam_boundaries has just returned
AfterBeamBoundaries == pc \in {"snapshot", "norms"}

\* C18 (as claimed): after beam_boundaries the vorticity of each exposed face
\* is -2*u/(h*h) with u read at the fluid node at distance one from the
\* face: column IL-1 for the front face, column IL+T+1 for the back face
\* (rows 1..H) and row H+1 for the top face (columns IL..IL+T).  Checked
\* for Re_target < 5, where no smoothing follows the assignment.
C18_WallVorticityFromFirstFluidNode ==
    (AfterBeamBoundaries /\ ~HighReynolds(R_target) /\ seed = NoSeed) =>
        /\ \A j \in 1 .. H : w[IL - 1, j] = WallVorticity(u[IL - 1, j])
        /\ \A j \in 1 .. H : w[IL + T + 1, j] = WallVorticity(u[IL + T + 1, j])
        /\ \A i \in IL .. (IL + T) : w[i, H + 1] = WallVorticity(u[i, H + 1])

\* the corner step has run on two estimates that are numbers
CornerBlended == pc = "corner_done" /\ ~IsNaN(w_from_vertical) /\ ~IsNaN(w_from_horizontal)

\* the blend with the weights a / 10 and b / 10
Weighted(a, b) == Add(Times(w_from_vertical, a, 10), Times(w_from_horizontal, b, 10))

\* the value the claim gives the corner: the plain average below Re = 5
\* (0.5 * (wv + wh), which in binary floating point is 0.5 * wv + 0.5 * wh),
\* 0.7 on the estimate of strictly smaller magnitude from Re = 5 on, the
\* horizontal one on equal magnitudes
ClaimedBlend ==
    IF R_target < 50 THEN Times(Add(w_from_vertical, w_from_horizontal), 1, 2)
    ELSE IF AbsInt(w_from_vertical) < AbsInt(w_from_horizontal) THEN Weighted(7, 3)
    ELSE Weighted(3, 7)

EstimateMin ==
    IF w_from_vertical < w_from_horizontal THEN w_from_vertical ELSE w_from_horizontal

EstimateMax ==
    IF w_from_vertical < w_from_horizontal THEN w_from_horizontal ELSE w_from_vertical

\* C19 (as claimed): both corners get the weighted blend of the two
\* geometry, estimates, and the result lies between the two estimates inclusive.
C19_BlendBetweenEstimates ==
    CornerBlended =>
        \A n \in {<<IL - 1, H + 1>>, <<IL + T + 1, H + 1>>} :
           /\ w[n] = ClaimedBlend
           /\ EstimateMin <= w[n] /\ w[n] <= EstimateMax

\* C19 (amended): both corners get the weighted blend of the two estimates;
\* the result lies between the two estimates below Re = 5, and from Re = 5
\* on it lies between them up to the rounding of the two products (one unit
\* of the resolution).
C19_BlendBetweenUpToRounding ==
    CornerBlended =>
        \A n \in {<<IL - 1, H + 1>>, <<IL + T + 1, H + 1>>} :
           /\ w[n] = ClaimedBlend
           /\ EstimateMin - 1 <= w[n] /\ w[n] <= EstimateMax + 1
           /\ R_target < 50 => (EstimateMin <= w[n] /\ w[n] <= EstimateMax)

\* from Re = 5 on, the vertical estimate is the smaller in magnitude and the
\* corner lies strictly between the two
C19_Witness ==
    /\ CornerBlended
    /\ R_target >= 50
    /\ AbsInt(w_from_vertical) < AbsInt(w_from_horizontal)
    /\ w[IL - 1, H + 1] = Weighted(7, 3)
    /\ EstimateMin < w[IL - 1, H + 1] /\ w[IL - 1, H + 1] < EstimateMax

RECURSIVE SmoothAround(_, _, _, _)
\* the smoothing of lines 214-242 applied, in place, to the 3 x 3
\* neighbourhood of the node (ci, cj)
SmoothAround(ww, ci, cj, pos) ==
    IF pos > Len(Offsets) \/ ~Evaluated(ww) THEN ww
    ELSE SmoothAround(smooth_node(ww, ci + Offsets[pos][1], cj + Offsets[pos][2]),
                      ci, cj, pos + 1)

\* the vorticity fields the claimed pass may leave from a field ww: both
\* neighbourhoods smoothed, in either order, from Re = 5 on; ww below
SmoothedAtBothCorners(ww, rt) ==
    IF HighReynolds(rt)
    THEN {SmoothAround(SmoothAround(ww, IL - 1, H + 1, 1), IL + T + 1, H + 1, 1),
          SmoothAround(SmoothAround(ww, IL + T + 1, H + 1, 1), IL - 1, H + 1, 1)}
    ELSE {ww}

\* the fields after the first three steps of beam_boundaries (lines 141-207)
FacesDone == beam_faces(beam_zero([u |-> u, w |-> w]), R_target)

\* C20 (as claimed): every beam_boundaries call ends with the smoothing pass
\* applied to the neighbourhoods of both top corners when Re_target >= 5,
\* and with no smoothing when Re_target < 5.
C20_SmoothingAtBothCorners ==
    [][(pc \in {"beam_top", "beam_bottom"}) =>
         (w' \in SmoothedAtBothCorners(FacesDone.w, R_target))]_vars

\* the interior nodes beside the domain boundary
EdgeAdjacent(n) == n[1] = 1 \/ n[1] = Nxmax - 1 \/ n[2] = 1 \/ n[2] = Nymax - 1

\* the stability factor the claim gives, in tenths, for a Reynolds number in
\* tenths
ClaimedStability(rt) ==
    IF rt <= 15 THEN 10
    ELSE IF rt <= 20 THEN 8
    ELSE IF rt < 50 THEN 7
    ELSE 4

\* w + omega * (w* - w) at node n, from the value old_w of the node and the
\* values e, wst, nn, so of its neighbours at (i+1, j), (i-1, j), (i, j+1),
\* (i, j-1)
ClaimedVorticity(n, old_w, e, wst, nn, so) ==
    LET a1 == Add(Add(Add(e, wst), nn), so)
        a2 == Mul(Sub(u[n[1], n[2] + 1], u[n[1], n[2] - 1]), Sub(e, wst))
        a3 == Mul(Sub(u[n[1] + 1, n[2]], u[n[1] - 1, n[2]]), Sub(nn, so))
        wstar == IF EdgeAdjacent(n) THEN Times(a1, 1, 4)
                 ELSE Times(Sub(a1, Mul(Times(Times(R, 1, 4), ClaimedStability(R_target), 10),
                                        Sub(a2, a3))), 1, 4)
    IN  Add(old_w, Times(Sub(wstar, old_w), omega, OmegaDen))

\* the sweep is in place: a neighbour is read before or after its own update
NeighbourReads(n) == {w[n], w'[n]}

\* C21: relax_vorticity sets every interior non-obstacle node to
\* w + omega * (w* - w), w* being the average of the four neighbours beside
\* the domain boundary and (a1 - s * (R/4) * (a2 - a3)) / 4 elsewhere, with
\* s = 1, 0.8, 0.7, 0.4 for Re <= 1.5, 1.5 < Re <= 2, 2 < Re < 5, Re >= 5.
C21_VorticityUpdate ==
    [][(pc = "relax_vorticity") =>
         /\ \A rt \in 1 .. 120 : StabilityFactor(rt) = ClaimedStability(rt)
         /\ \A n \in ComparedNodes :
               \E e \in NeighbourReads(<<n[1] + 1, n[2]>>),
                  wst \in NeighbourReads(<<n[1] - 1, n[2]>>),
                  nn \in NeighbourReads(<<n[1], n[2] + 1>>),
                  so \in NeighbourReads(<<n[1], n[2] - 1>>) :
                    w'[n] = ClaimedVorticity(n, w[n], e, wst, nn, so)]_vars

\* a vorticity sweep at Re = 5 has changed a node away from the domain
\* boundary and a node beside it
C21_Witness ==
    /\ pc = "beam_bottom"
    /\ R_target = 50
    /\ \E n \in ComparedNodes : ~EdgeAdjacent(n) /\ w[n] # w_old[n] /\ ~IsNaN(w[n])
    /\ \E n \in ComparedNodes : EdgeAdjacent(n) /\ w[n] # w_old[n]

\* thread a is about to write the cell that thread b is about to write, or a
\* cell that thread b is about to read as a stencil neighbour
ConflictingAccess(a, b) ==
    /\ a # b
    /\ ~ThreadDone(a) /\ ~ThreadDone(b)
    /\ thread_phase[a] = "write"
    /\ \/ thread_phase[b] = "write" /\ thread_at[b] = thread_at[a]
       \/ /\ thread_phase[b] = "read"
          /\ ~is_inside_beam(thread_at[b][1], thread_at[b][2])
          /\ thread_at[a] \in Stencil(thread_at[b])

\* C22 (as claimed): in a sweep run by threads with disjoint columns, no
\* cell of the swept field is written by one thread while another thread
\* writes it or reads it as a stencil neighbour.
C22_NoDataRace ==
    pc \in {"sweep_stream_function", "sweep_vorticity"} =>
        \A a \in Threads, b \in Threads : ~ConflictingAccess(a, b)

\* the largest |f - f_old| over the interior non-obstacle nodes
TrueMaximum(f, f_old) ==
    LET D == {AbsInt(f[n] - f_old[n]) : n \in ComparedNodes}
    IN  CHOOSE m \in D : \A d \in D : d <= m

\* C23: for every partition of the columns among the threads and every
\* interleaving, the change norms at the end of the norm loop are the maxima
\* of |u - u_old| and |w - w_old| over the interior non-obstacle nodes.
C23_TrueReduction ==
    pc = "reduce_joined" =>
        /\ max_diff_u = TrueMaximum(u, u_old)
        /\ max_diff_w = TrueMaximum(w, w_old)

\* the loop has ended with both threads having had columns, the two copies
\* differing in both fields, and the larger u change found by thread 1
C23_Witness ==
    /\ pc = "reduce_joined"
    /\ private_max[0].u > Lowest /\ private_max[1].u > private_max[0].u
    /\ private_max[0].w # private_max[1].w
    /\ max_diff_u = private_max[1].u
    /\ max_diff_u > 0 /\ max_diff_w > 0

\* C24 (as claimed): for every geometry whose obstacle rectangle lies inside
\* [1, Nxmax-1] x [0, Nymax-1], every array element that beam_boundaries
\* reads or writes has indices within 0 .. Nxmax and 0 .. Nymax.
C24_AccessesInBounds ==
    pc = "geometry_done" =>
        \A a \in calls : /\ 0 <= a.i /\ a.i <= geometry.Nxmax
                         /\ 0 <= a.j /\ a.j <= geometry.Nymax

====
